---------------------------- MODULE Spec2Model ----------------------------
(***************************************************************************)
(* A model of the metrics aggregation and scoring engine of                *)
(* repo-health-tracker: MetricsCalculator (engine/metrics.py), the helpers *)
(* it uses (utils/helpers.py) and RepoHealthScorer (engine/scorer.py).     *)
(*                                                                         *)
(* Conventions                                                             *)
(*   - An instant is an integer number of hours since the model's epoch.   *)
(*   - A Python value that may be None is a sequence of length <= 1:       *)
(*     <<>> is None, <<v>> is the value v.                                 *)
(*   - A timestamp string is [local |-> hours, off |-> hours]: the wall    *)
(*     clock reading and the UTC offset written in the ISO string ("Z" is  *)
(*     offset 0).                                                          *)
(*   - A Python float is an exact rational [n |-> Int, d |-> Nat \ {0}] in *)
(*     lowest terms, so that equal numbers are equal values.               *)
(*   - A Python dict read with .get(key, default) is a function read with  *)
(*     Get(dict, key, default).                                            *)
(***************************************************************************)
EXTENDS Integers, Sequences, FiniteSets, TLC

VARIABLES
    prs,                \* MetricsCalculator.prs
    issues,             \* MetricsCalculator.issues
    first_seen_global,  \* MetricsCalculator.first_seen_global
    now,                \* the reading of the system clock (now_utc)
    call,               \* the last operation invoked, with its arguments
    ret,                \* the value that operation returned
    raised,             \* the exception that operation raised, or "none"
    metrics,            \* RepoHealthScorer.metrics
    score               \* the document calculate_overall_score returned

vars == <<prs, issues, first_seen_global, now, call, ret, raised, metrics, score>>

----------------------------------------------------------------------------
(* Bounds of the model *)

MaxPRs == 2

MaxIssues == 1

MaxSubset == 2

MaxTicks == 1

\* the items of a page (the queries ask for first: 100)
PageSize == 1

\* the years, from the epoch on, whose months are given to the month-end step
MaxYears == 10

----------------------------------------------------------------------------
(* Optional values *)

None == <<>>

Some(v) == <<v>>

IsNone(o) == o = <<>>

Val(o) == o[1]

Get(dict, key, default) == IF key \in DOMAIN dict THEN dict[key] ELSE default

Range(s) == {s[i] : i \in DOMAIN s}

RECURSIVE SeqsUpTo(_, _)
SeqsUpTo(S, n) ==
    IF n = 0 THEN {<<>>}
    ELSE LET shorter == SeqsUpTo(S, n - 1)
         IN  shorter \cup {Append(s, x) : s \in {t \in shorter : Len(t) = n - 1}, x \in S}

\* a local binding: value is computed once and handed to Body
With(value, Body(_)) == CHOOSE result \in {Body(v) : v \in {value}} : TRUE

RECURSIVE SumSeq(_)
SumSeq(s) == IF s = <<>> THEN 0 ELSE s[1] + SumSeq(Tail(s))

----------------------------------------------------------------------------
(* Exact rational arithmetic, standing for Python float arithmetic *)

Abs(i) == IF i < 0 THEN -i ELSE i

RECURSIVE GCD(_, _)
GCD(a, b) == IF b = 0 THEN a ELSE GCD(b, a % b)

Norm(n, d) ==
    LET g == GCD(Abs(n), Abs(d))
        s == IF d < 0 THEN -1 ELSE 1
    IN  [n |-> s * (n \div g), d |-> s * (d \div g)]

Rat(i) == [n |-> i, d |-> 1]

Frac(n, d) == Norm(n, d)

\* the sum over the least common denominator
RAdd(a, b) ==
    LET g == GCD(a.d, b.d)
    IN  Norm(a.n * (b.d \div g) + b.n * (a.d \div g), (a.d \div g) * b.d)

RNeg(a) == [n |-> -a.n, d |-> a.d]

RSub(a, b) == RAdd(a, RNeg(b))

\* the product, common factors cancelled before multiplying
RMul(a, b) ==
    LET g1 == GCD(Abs(a.n), b.d)
        g2 == GCD(Abs(b.n), a.d)
    IN  IF a.n = 0 \/ b.n = 0 THEN [n |-> 0, d |-> 1]
        ELSE Norm((a.n \div g1) * (b.n \div g2), (a.d \div g2) * (b.d \div g1))

RDiv(a, b) == RMul(a, Norm(b.d, b.n))

RLt(a, b) == a.n * b.d < b.n * a.d

RLe(a, b) == a.n * b.d <= b.n * a.d

RECURSIVE RSum(_)
RSum(s) == IF s = <<>> THEN Rat(0) ELSE RAdd(s[1], RSum(Tail(s)))

\* round(x, 2): the nearest multiple of 1/100, a tie going to the even one
Round2(x) ==
    LET num == x.n * 100
        q == num \div x.d
        r == num % x.d
        up == \/ 2 * r > x.d
              \/ 2 * r = x.d /\ q % 2 = 1
    IN  Norm(IF up THEN q + 1 ELSE q, 100)

----------------------------------------------------------------------------
(* utils/helpers.py *)

HoursPerDay == 24

\* timedelta(days=n), in hours
Days(n) == n * HoursPerDay

\* parse_datetime without .astimezone(timezone.utc): the wall clock reading
\* is kept as written
parse_datetime_as_written(dt_str) ==
    IF IsNone(dt_str) THEN None
    ELSE Some(Val(dt_str).local)

\* parse_datetime: None (or an empty string) stays None; otherwise the wall
\* clock reading is moved to UTC by its offset
parse_datetime(dt_str) ==
    IF IsNone(dt_str) THEN None
    ELSE Some(Val(dt_str).local - Val(dt_str).off)

\* sorted(values) for a list of numbers (insertion into an ascending list)
RECURSIVE InsertSorted(_, _)
InsertSorted(sorted, x) ==
    IF sorted = <<>> THEN <<x>>
    ELSE IF RLt(x, sorted[1]) THEN <<x>> \o sorted
    ELSE <<sorted[1]>> \o InsertSorted(Tail(sorted), x)

RECURSIVE SortedValues(_)
SortedValues(values) ==
    IF values = <<>> THEN <<>>
    ELSE With(SortedValues(SubSeq(values, 1, Len(values) - 1)), LAMBDA sorted :
             InsertSorted(sorted, values[Len(values)]))

\* statistics.median: the middle value, or the mean of the two middle values
median(values) ==
    With(SortedValues(values), LAMBDA data :
        LET n == Len(data)
        IN  IF n % 2 = 1 THEN data[n \div 2 + 1]
            ELSE RDiv(RAdd(data[n \div 2], data[n \div 2 + 1]), Rat(2)))

\* safe_median answering -1 for "no data"
safe_median_sentinel(values) == IF values # <<>> THEN median(values) ELSE Rat(-1)

safe_median(values) == IF values # <<>> THEN median(values) ELSE Rat(0)

----------------------------------------------------------------------------
(* The calendar: instant 0 is 00:00 UTC on the first day of Epoch *)

Epoch == [year |-> 2022, month |-> 1]

IsLeap(y) == (y % 4 = 0 /\ y % 100 # 0) \/ y % 400 = 0

DaysInMonth(y, m) ==
    IF m = 2 THEN (IF IsLeap(y) THEN 29 ELSE 28)
    ELSE IF m \in {4, 6, 9, 11} THEN 30 ELSE 31

\* the number of days from the epoch to y-01-01
DaysBeforeYear(y) ==
    365 * (y - Epoch.year) + Cardinality({z \in Epoch.year .. y - 1 : IsLeap(z)})

\* the number of days from the epoch to y-m-01
DaysBefore(y, m) ==
    DaysBeforeYear(y)
        + <<0, 31, 59, 90, 120, 151, 181, 212, 243, 273, 304, 334>>[m]
        + (IF m > 2 /\ IsLeap(y) THEN 1 ELSE 0)

\* the year and month in which day number d, counted from the epoch, falls
MonthOfDay(d) ==
    With(CHOOSE y \in Epoch.year .. Epoch.year + d \div 365 :
             DaysBeforeYear(y) <= d /\ d < DaysBeforeYear(y + 1), LAMBDA y :
        [year |-> y,
         month |-> CHOOSE m \in 1 .. 12 :
                       /\ DaysBefore(y, m) <= d
                       /\ d < DaysBefore(y, m) + DaysInMonth(y, m)])

\* datetime.strftime("%Y-%m"): the key "YYYY-MM", kept as the number YYYYMM
\* (the keys order as numbers the way the strings order as text)
strftime_Ym(t) ==
    LET ym == MonthOfDay(t \div HoursPerDay)
    IN  ym.year * 100 + ym.month

\* datetime.strptime(month + "-01", "%Y-%m-%d"), as a year and a month
strptime_Ym01(key) == [year |-> key \div 100, month |-> key % 100]

\* the instant of 00:00 UTC on the first day of a month
InstantOf(ym) == Days(DaysBefore(ym.year, ym.month))

\* group_by_month: the items with a createdAt, by creation month, in input order
group_by_month(items) ==
    LET keyOf(item) == strftime_Ym(Val(parse_datetime(item.createdAt)))
    IN  With(SelectSeq(items, LAMBDA item : ~IsNone(parse_datetime(item.createdAt))),
             LAMBDA dated :
        With([i \in DOMAIN dated |-> keyOf(dated[i])], LAMBDA key :
            [k \in Range(key) |->
                [i \in 1 .. Cardinality({j \in DOMAIN dated : key[j] = k}) |->
                    dated[CHOOSE j \in DOMAIN dated :
                            /\ key[j] = k
                            /\ Cardinality({h \in 1 .. j : key[h] = k}) = i]]]))

\* filter_last_days, the clock reading clock: comparing None with the cutoff
\* raises TypeError
filter_last_days(items, days, clock) ==
    LET cutoff == clock - Days(days)
    IN  IF \E i \in DOMAIN items : IsNone(parse_datetime(items[i].createdAt))
        THEN [raised |-> "TypeError", value |-> <<>>]
        ELSE [raised |-> "none",
              value |-> SelectSeq(items,
                  LAMBDA item : Val(parse_datetime(item.createdAt)) >= cutoff)]

----------------------------------------------------------------------------
(* Results of operations that may raise *)

Ok(v) == [raised |-> "none", value |-> v]

Raise(e) == [raised |-> e, value |-> <<>>]

\* the exception of the first result, in program order, that raised
RECURSIVE FirstRaised(_)
FirstRaised(results) ==
    IF results = <<>> THEN "none"
    ELSE IF results[1].raised # "none" THEN results[1].raised
    ELSE FirstRaised(Tail(results))

----------------------------------------------------------------------------
(* collections.Counter: the keys with their counts, in insertion order *)

CounterInc(counter, key) ==
    IF \E i \in DOMAIN counter : counter[i].key = key
    THEN [i \in DOMAIN counter |->
            IF counter[i].key = key
            THEN [key |-> key, count |-> counter[i].count + 1]
            ELSE counter[i]]
    ELSE Append(counter, [key |-> key, count |-> 1])

RECURSIVE CounterAddAll(_, _)
CounterAddAll(counter, keys) ==
    IF keys = <<>> THEN counter
    ELSE CounterAddAll(CounterInc(counter, keys[1]), Tail(keys))

CounterTotal(counter) == SumSeq([i \in DOMAIN counter |-> counter[i].count])

\* sorted(items, key=count, reverse=True): descending counts, equal counts
\* keeping their insertion order
RECURSIVE InsertByCount(_, _)
InsertByCount(sorted, e) ==
    IF sorted = <<>> THEN <<e>>
    ELSE IF e.count > sorted[1].count THEN <<e>> \o sorted
    ELSE <<sorted[1]>> \o InsertByCount(Tail(sorted), e)

RECURSIVE SortByCount(_)
SortByCount(counter) ==
    IF counter = <<>> THEN <<>>
    ELSE With(SortByCount(SubSeq(counter, 1, Len(counter) - 1)), LAMBDA sorted :
             InsertByCount(sorted, counter[Len(counter)]))

\* the first n entries of a counter in insertion order, without the sort
most_common_unsorted(counter, n) ==
    SubSeq(counter, 1, IF Len(counter) < n THEN Len(counter) ELSE n)

most_common(counter, n) ==
    With(SortByCount(counter), LAMBDA ordered :
        SubSeq(ordered, 1, IF Len(ordered) < n THEN Len(ordered) ELSE n))

----------------------------------------------------------------------------
(* str.lower, for the logins *)

LowerChar(c) ==
    CASE c = "A" -> "a" [] c = "B" -> "b" [] c = "C" -> "c" [] c = "D" -> "d"
      [] c = "E" -> "e" [] c = "F" -> "f" [] c = "G" -> "g" [] c = "H" -> "h"
      [] c = "I" -> "i" [] c = "J" -> "j" [] c = "K" -> "k" [] c = "L" -> "l"
      [] c = "M" -> "m" [] c = "N" -> "n" [] c = "O" -> "o" [] c = "P" -> "p"
      [] c = "Q" -> "q" [] c = "R" -> "r" [] c = "S" -> "s" [] c = "T" -> "t"
      [] c = "U" -> "u" [] c = "V" -> "v" [] c = "W" -> "w" [] c = "X" -> "x"
      [] c = "Y" -> "y" [] c = "Z" -> "z"
      [] OTHER -> c

lower(str) == [i \in DOMAIN str |-> LowerChar(str[i])]

CodecovBot == <<"c", "o", "d", "e", "c", "o", "v", "[", "b", "o", "t", "]">>

----------------------------------------------------------------------------
(* engine/metrics.py: MetricsCalculator *)

\* sorted(all_items, key = createdAt or datetime.max): a stable sort, an item
\* without createdAt ordering after every dated item
CreatedBefore(a, b) ==
    LET ka == parse_datetime(a.createdAt)
        kb == parse_datetime(b.createdAt)
    IN  ~IsNone(ka) /\ (IsNone(kb) \/ Val(ka) < Val(kb))

RECURSIVE InsertByCreated(_, _)
InsertByCreated(sorted, item) ==
    IF sorted = <<>> THEN <<item>>
    ELSE IF CreatedBefore(item, sorted[1]) THEN <<item>> \o sorted
    ELSE <<sorted[1]>> \o InsertByCreated(Tail(sorted), item)

RECURSIVE SortByCreated(_)
SortByCreated(items) ==
    IF items = <<>> THEN <<>>
    ELSE With(SortByCreated(SubSeq(items, 1, Len(items) - 1)), LAMBDA sorted :
             InsertByCreated(sorted, items[Len(items)]))

\* the scan without the test user_id not in first_seen: the last item of each
\* author is kept
RECURSIVE FirstSeenScan_overwriting(_, _)
FirstSeenScan_overwriting(first_seen, sorted_items) ==
    IF sorted_items = <<>> THEN first_seen
    ELSE LET item == sorted_items[1]
             author_obj == item.author
             created == parse_datetime(item.createdAt)
         IN  IF IsNone(author_obj) \/ IsNone(Val(author_obj).id)
             THEN FirstSeenScan_overwriting(first_seen, Tail(sorted_items))
             ELSE LET user_id == Val(Val(author_obj).id)
                  IN  IF ~IsNone(created)
                      THEN With([id \in DOMAIN first_seen \cup {user_id} |->
                                    IF id = user_id THEN Val(created) ELSE first_seen[id]],
                                LAMBDA seen :
                               FirstSeenScan_overwriting(seen, Tail(sorted_items)))
                      ELSE FirstSeenScan_overwriting(first_seen, Tail(sorted_items))

\* the scan of _build_first_seen_map over the sorted items
RECURSIVE FirstSeenScan(_, _)
FirstSeenScan(first_seen, sorted_items) ==
    IF sorted_items = <<>> THEN first_seen
    ELSE LET item == sorted_items[1]
             author_obj == item.author
             created == parse_datetime(item.createdAt)
         IN  IF IsNone(author_obj) \/ IsNone(Val(author_obj).id)
             THEN FirstSeenScan(first_seen, Tail(sorted_items))
             ELSE LET user_id == Val(Val(author_obj).id)
                  IN  IF ~IsNone(created) /\ user_id \notin DOMAIN first_seen
                      THEN With(first_seen @@ (user_id :> Val(created)), LAMBDA seen :
                               FirstSeenScan(seen, Tail(sorted_items)))
                      ELSE FirstSeenScan(first_seen, Tail(sorted_items))

\* the scan without the sort: the first item of each author in input order
_build_first_seen_map_unsorted(all_items) == FirstSeenScan(<<>>, all_items)

_build_first_seen_map(all_items) ==
    With(SortByCreated(all_items), LAMBDA sorted_items : FirstSeenScan(<<>>, sorted_items))

\* the id of a PR's author, None when the author or its id is absent
AuthorId(item) == IF IsNone(item.author) THEN None ELSE Val(item.author).id

\* the comments of a PR that count as a response
CommentResponds(pr, comment) ==
    /\ ~IsNone(comment.author)
    /\ Val(comment.author).id # AuthorId(pr)
    /\ lower(Val(comment.author).login) # CodecovBot

\* the reviews of a PR that count as a response and for their reviewer
ReviewCounts(pr, review) ==
    /\ ~IsNone(review.author)
    /\ Val(review.author).id # AuthorId(pr)

\* response_events of one PR: the parsed timestamps, None included
ResponseEvents(pr) ==
    LET cs == SelectSeq(pr.comments, LAMBDA c : CommentResponds(pr, c))
        rs == SelectSeq(pr.reviews, LAMBDA r : ReviewCounts(pr, r))
    IN  [i \in DOMAIN cs |-> parse_datetime(cs[i].createdAt)]
        \o [i \in DOMAIN rs |-> parse_datetime(rs[i].submittedAt)]

\* the reviewer ids one PR adds to reviewer_counts, in order
ReviewerKeys(pr) ==
    LET rs == SelectSeq(pr.reviews, LAMBDA r : ReviewCounts(pr, r))
    IN  [i \in DOMAIN rs |-> Val(rs[i].author).id]

MinOf(S) == CHOOSE x \in S : \A y \in S : x <= y

\* merge_durations after one PR, a PR never merged counting as 0 days
WithMergeDuration_unmerged_as_zero(merge_durations, pr) ==
    LET created == parse_datetime(pr.createdAt)
        merged == parse_datetime(pr.mergedAt)
    IN  IF ~IsNone(created) /\ ~IsNone(merged)
        THEN Append(merge_durations, Frac(Val(merged) - Val(created), HoursPerDay))
        ELSE Append(merge_durations, Rat(0))

\* merge_durations after one PR: a PR with createdAt and mergedAt appends
\* (merged - created).total_seconds() / 86400, any other PR appends nothing
WithMergeDuration(merge_durations, pr) ==
    LET created == parse_datetime(pr.createdAt)
        merged == parse_datetime(pr.mergedAt)
    IN  IF ~IsNone(created) /\ ~IsNone(merged)
        THEN Append(merge_durations, Frac(Val(merged) - Val(created), HoursPerDay))
        ELSE merge_durations

\* the loop of compute_execution_metrics
RECURSIVE ExecutionLoop(_, _)
ExecutionLoop(acc, prs_subset) ==
    IF prs_subset = <<>> \/ acc.raised # "none" THEN acc
    ELSE With(prs_subset[1], LAMBDA pr :
         With(parse_datetime(pr.createdAt), LAMBDA created :
         With(ResponseEvents(pr), LAMBDA response_events :
         With({Val(response_events[i]) :
                  i \in {j \in DOMAIN response_events : ~IsNone(response_events[j])}},
              LAMBDA timed :
         With(WithMergeDuration(acc.merge_durations, pr), LAMBDA durations :
         With(CounterAddAll(acc.reviewer_counts, ReviewerKeys(pr)), LAMBDA counts :
             IF ~IsNone(created) /\ response_events # <<>>
             THEN IF timed = {}
                  THEN [acc EXCEPT !.raised = "ValueError"]
                  ELSE With([acc EXCEPT
                               !.merge_durations = durations,
                               !.reviewer_counts = counts,
                               !.first_response_times =
                                   Append(@, Rat(MinOf(timed) - Val(created)))],
                            LAMBDA next : ExecutionLoop(next, Tail(prs_subset)))
             ELSE With([acc EXCEPT !.merge_durations = durations,
                                   !.reviewer_counts = counts],
                       LAMBDA next : ExecutionLoop(next, Tail(prs_subset)))))))))

compute_execution_metrics(prs_subset) ==
    With(ExecutionLoop([merge_durations |-> <<>>,
                        first_response_times |-> <<>>,
                        reviewer_counts |-> <<>>,
                        raised |-> "none"], prs_subset), LAMBDA acc :
    With(acc.reviewer_counts, LAMBDA reviewer_counts :
    With(CounterTotal(reviewer_counts), LAMBDA review_total :
    With(most_common(reviewer_counts, 2), LAMBDA top_reviewers :
    With(CounterTotal(top_reviewers), LAMBDA top2_total :
        LET review_top1_pct ==
                IF review_total > 0
                THEN RMul(Frac(top_reviewers[1].count, review_total), Rat(100))
                ELSE Rat(0)
            review_top2_pct ==
                IF review_total > 0
                THEN RMul(Frac(top2_total, review_total), Rat(100))
                ELSE Rat(0)
        IN  IF acc.raised # "none" THEN Raise(acc.raised)
            ELSE Ok([median_merge_days |-> safe_median(acc.merge_durations),
                     median_first_response_hours |->
                         safe_median(acc.first_response_times),
                     review_top1_pct |-> review_top1_pct,
                     review_top2_pct |-> review_top2_pct,
                     total_prs |-> Len(prs_subset),
                     top_reviewers_by_id |-> most_common(reviewer_counts, 10)]))))))

\* the items compute_community_metrics counts: those with an author id and
\* a createdAt
Counted(item) ==
    /\ ~IsNone(item.author)
    /\ ~IsNone(Val(item.author).id)
    /\ ~IsNone(parse_datetime(item.createdAt))

\* the test with a strict comparison
IsNew_strict(first_seen, window_start) ==
    ~IsNone(first_seen) /\ Val(first_seen) > window_start

\* first_seen and first_seen >= window_start
IsNew(first_seen, window_start) ==
    ~IsNone(first_seen) /\ Val(first_seen) >= window_start

\* the loop of compute_community_metrics
RECURSIVE CommunityLoop(_, _, _, _)
CommunityLoop(acc, items_subset, window_start, first_seen_map) ==
    IF items_subset = <<>> THEN acc
    ELSE With(items_subset[1], LAMBDA item :
             IF ~Counted(item)
             THEN CommunityLoop(acc, Tail(items_subset), window_start, first_seen_map)
             ELSE With(Val(Val(item.author).id), LAMBDA user_id :
                  With(IF user_id \in DOMAIN first_seen_map
                       THEN Some(first_seen_map[user_id]) ELSE None, LAMBDA first_seen :
                  With(IsNew(first_seen, window_start), LAMBDA is_new :
                  With([author_counts |-> CounterInc(acc.author_counts, user_id),
                        new_contributors |->
                            IF is_new THEN acc.new_contributors \cup {user_id}
                            ELSE acc.new_contributors,
                        returning_contributors |->
                            IF is_new THEN acc.returning_contributors
                            ELSE acc.returning_contributors \cup {user_id}],
                       LAMBDA next :
                           CommunityLoop(next, Tail(items_subset), window_start,
                                         first_seen_map))))))

compute_community_metrics(items_subset, window_start, first_seen_map) ==
    With(CommunityLoop([author_counts |-> <<>>,
                        new_contributors |-> {},
                        returning_contributors |-> {}],
                       items_subset, window_start, first_seen_map), LAMBDA acc :
    With(acc.author_counts, LAMBDA author_counts :
    With(CounterTotal(author_counts), LAMBDA total_actions :
    With(most_common(author_counts, 2), LAMBDA top_authors :
    With(CounterTotal(top_authors), LAMBDA top2_total :
    With(Cardinality(acc.returning_contributors), LAMBDA returning :
        LET author_top1_pct ==
                IF total_actions > 0
                THEN RMul(Frac(top_authors[1].count, total_actions), Rat(100))
                ELSE Rat(0)
            author_top2_pct ==
                IF total_actions > 0 /\ Len(top_authors) > 1
                THEN RMul(Frac(top2_total, total_actions), Rat(100))
                ELSE Rat(0)
        IN  [unique_contributors |-> Len(author_counts),
             new_contributors |-> Cardinality(acc.new_contributors),
             returning_contributors |-> returning,
             return_rate_pct |->
                 IF author_counts # <<>>
                 THEN RMul(Frac(returning, Len(author_counts)), Rat(100))
                 ELSE Rat(0),
             author_top1_pct |-> author_top1_pct,
             author_top2_pct |-> author_top2_pct,
             top_authors_by_id |-> most_common(author_counts, 10)]))))))

\* the open-PR test by the fetch-time state instead of mergedAt
OpenPR_by_state(pr, as_of) ==
    LET created == parse_datetime(pr.createdAt)
    IN  /\ ~IsNone(created)
        /\ Val(created) <= as_of
        /\ pr.state = "OPEN"

\* the PRs and the issues compute_backlog takes as open at as_of
OpenPR(pr, as_of) ==
    LET created == parse_datetime(pr.createdAt)
        merged == parse_datetime(pr.mergedAt)
    IN  /\ ~IsNone(created)
        /\ Val(created) <= as_of
        /\ (IsNone(merged) \/ Val(merged) > as_of)

OpenIssue(issue, as_of) ==
    LET created == parse_datetime(issue.createdAt)
    IN  /\ ~IsNone(created)
        /\ Val(created) <= as_of
        /\ issue.state # "CLOSED"

\* timedelta.days of as_of - createdAt: whole days, rounded down
AgeDays(item, as_of) == (as_of - Val(parse_datetime(item.createdAt))) \div HoursPerDay

compute_backlog(as_of, the_prs, the_issues) ==
    With(SelectSeq(the_prs, LAMBDA pr : OpenPR(pr, as_of)), LAMBDA open_prs :
    With(SelectSeq(the_issues, LAMBDA issue : OpenIssue(issue, as_of)),
         LAMBDA open_issues :
    With([i \in DOMAIN open_prs |-> Rat(AgeDays(open_prs[i], as_of))],
         LAMBDA open_pr_ages :
    With([i \in DOMAIN open_issues |-> Rat(AgeDays(open_issues[i], as_of))],
         LAMBDA open_issue_ages :
        [open_pr_count |-> Len(open_prs),
         open_issue_count |-> Len(open_issues),
         median_open_pr_age_days |-> safe_median(open_pr_ages),
         median_open_issue_age_days |-> safe_median(open_issue_ages)]))))

\* the rolling windows of analyze_all, in the order it computes them
WindowDays == <<365, 180, 90>>

\* f"last_{days}_days"
WindowKey(days) ==
    CASE days = 365 -> "last_365_days"
      [] days = 180 -> "last_180_days"
      [] days = 90 -> "last_90_days"

\* the number of times analyze_all may read the clock: once for project_start
\* and three times for each rolling window
NumClockReads == 1 + 3 * Len(WindowDays)

\* one rolling window: reads[1] is the clock read for window_start, reads[2]
\* and reads[3] the ones filter_last_days makes for the PRs and the issues
RollingWindow(days, reads, the_prs, the_issues, first_seen_map) ==
    With(reads[1] - Days(days), LAMBDA window_start :
    With(filter_last_days(the_prs, days, reads[2]), LAMBDA window_prs :
    With(filter_last_days(the_issues, days, reads[3]), LAMBDA window_issues :
    With(window_prs.value \o window_issues.value, LAMBDA window_items :
    With(compute_execution_metrics(window_prs.value), LAMBDA execution :
    With(FirstRaised(<<window_prs, window_issues, execution>>), LAMBDA failed :
        IF failed # "none" THEN Raise(failed)
        ELSE Ok([execution |-> execution.value,
                 community |-> compute_community_metrics(window_items, window_start,
                                                         first_seen_map)])))))))

\* month_end with next_month computed by month % 12 + 1 alone, the year kept
MonthEnd_keeping_year(month) ==
    LET month_start == strptime_Ym01(month)
        next_month == [year |-> month_start.year, month |-> (month_start.month % 12) + 1]
    IN  InstantOf(next_month) - Days(1)

\* the 00:00 instant of the last day of the month of a key of the monthly section
MonthEnd(month) ==
    LET month_start == strptime_Ym01(month)
        next_month ==
            IF month_start.month < 12
            THEN [year |-> month_start.year, month |-> (month_start.month % 12) + 1]
            ELSE [year |-> month_start.year + 1, month |-> 1]
    IN  InstantOf(next_month) - Days(1)

MonthlyWindow(month, monthly_prs, monthly_issues, the_prs, the_issues, first_seen_map) ==
    With(Get(monthly_prs, month, <<>>), LAMBDA month_prs :
    With(Get(monthly_issues, month, <<>>), LAMBDA month_issues :
    With(month_prs \o month_issues, LAMBDA month_items :
    With(InstantOf(strptime_Ym01(month)), LAMBDA month_start :
    With(MonthEnd(month), LAMBDA month_end :
    With(compute_execution_metrics(month_prs), LAMBDA execution :
        IF execution.raised # "none" THEN Raise(execution.raised)
        ELSE Ok([execution |-> execution.value,
                 community |-> compute_community_metrics(month_items, month_start,
                                                         first_seen_map),
                 backlog |-> compute_backlog(month_end, the_prs, the_issues)])))))))

\* the months of a set of keys, ascending, as sorted(all_months) lists them
RECURSIVE SortedKeys(_)
SortedKeys(keys) ==
    IF keys = {} THEN <<>>
    ELSE LET least == CHOOSE k \in keys : \A other \in keys : k <= other
         IN  <<least>> \o SortedKeys(keys \ {least})

\* project_start taken from the clock whatever the first-seen map holds
ProjectStart_now(first_seen_map, clock) == clock

\* project_start: the least first-seen instant, or now_utc() for an empty map
ProjectStart(first_seen_map, clock) ==
    IF DOMAIN first_seen_map # {}
    THEN MinOf({first_seen_map[id] : id \in DOMAIN first_seen_map})
    ELSE clock

\* analyze_all, reads being the successive readings of the clock
analyze_all(the_prs, the_issues, first_seen_map, reads) ==
    With(the_prs \o the_issues, LAMBDA all_items :
    With(ProjectStart(first_seen_map, reads[1]), LAMBDA project_start :
    With(compute_execution_metrics(the_prs), LAMBDA all_time_execution :
    With([w \in DOMAIN WindowDays |->
             RollingWindow(WindowDays[w], SubSeq(reads, 3 * w - 1, 3 * w + 1),
                           the_prs, the_issues, first_seen_map)], LAMBDA rolling :
    With(group_by_month(the_prs), LAMBDA monthly_prs :
    With(group_by_month(the_issues), LAMBDA monthly_issues :
    With(SortedKeys(DOMAIN monthly_prs \cup DOMAIN monthly_issues), LAMBDA all_months :
    With([m \in DOMAIN all_months |->
             MonthlyWindow(all_months[m], monthly_prs, monthly_issues,
                           the_prs, the_issues, first_seen_map)], LAMBDA monthly :
    With(FirstRaised(<<all_time_execution>> \o rolling \o monthly), LAMBDA failed :
        IF failed # "none" THEN Raise(failed)
        ELSE Ok([all_time |->
                    [execution |-> all_time_execution.value,
                     community |-> compute_community_metrics(all_items, project_start,
                                                             first_seen_map)],
                 rolling_windows |->
                    [k \in {WindowKey(WindowDays[w]) : w \in DOMAIN WindowDays} |->
                        LET w == CHOOSE w \in DOMAIN WindowDays :
                                     WindowKey(WindowDays[w]) = k
                        IN  rolling[w].value],
                 monthly |->
                    [k \in Range(all_months) |->
                        LET m == CHOOSE m \in DOMAIN all_months : all_months[m] = k
                        IN  monthly[m].value]]))))))))))

----------------------------------------------------------------------------
(* engine/scorer.py: RepoHealthScorer *)

\* the weights with those of community and backlog exchanged
weights_exchanged ==
    [execution |-> Frac(4, 10), community |-> Frac(2, 10), backlog |-> Frac(4, 10)]

weights == [execution |-> Frac(4, 10), community |-> Frac(4, 10), backlog |-> Frac(2, 10)]

targets ==
    [median_merge_days |-> [good |-> 1, bad |-> 30],
     median_first_response_hours |-> [good |-> 2, bad |-> 168],
     review_top1_pct |-> [good |-> 30, bad |-> 90],
     return_rate_pct |-> [good |-> 60, bad |-> 10],
     median_open_pr_age_days |-> [good |-> 7, bad |-> 90],
     median_open_issue_age_days |-> [good |-> 14, bad |-> 180]]

\* _score_metric interpolating from the wrong end of the band
_score_metric_inverted(metric_name, value) ==
    IF metric_name \notin DOMAIN targets THEN Rat(0)
    ELSE LET good == Rat(targets[metric_name].good)
             bad == Rat(targets[metric_name].bad)
         IN  IF RLt(good, bad)
             THEN IF RLe(value, good) THEN Rat(100)
                  ELSE IF RLe(bad, value) THEN Rat(0)
                  ELSE RDiv(RMul(Rat(100), RSub(value, good)), RSub(bad, good))
             ELSE IF RLe(good, value) THEN Rat(100)
                  ELSE IF RLe(value, bad) THEN Rat(0)
                  ELSE RDiv(RMul(Rat(100), RSub(good, value)), RSub(good, bad))

_score_metric(metric_name, value) ==
    IF metric_name \notin DOMAIN targets THEN Rat(0)
    ELSE LET good == Rat(targets[metric_name].good)
             bad == Rat(targets[metric_name].bad)
         IN  IF RLt(good, bad)
             THEN IF RLe(value, good) THEN Rat(100)
                  ELSE IF RLe(bad, value) THEN Rat(0)
                  ELSE RDiv(RMul(Rat(100), RSub(bad, value)), RSub(bad, good))
             ELSE IF RLe(good, value) THEN Rat(100)
                  ELSE IF RLe(value, bad) THEN Rat(0)
                  ELSE RDiv(RMul(Rat(100), RSub(value, bad)), RSub(good, bad))

\* sum(scores.values()) / len(scores)
MeanOf(scores) == RDiv(RSum(scores), Rat(Len(scores)))

calculate_execution_score(execution_metrics) ==
    LET scores ==
            [merge_velocity |->
                 _score_metric("median_merge_days",
                               Get(execution_metrics, "median_merge_days", Rat(0))),
             responsiveness |->
                 _score_metric("median_first_response_hours",
                               Get(execution_metrics, "median_first_response_hours", Rat(0))),
             review_bottleneck |->
                 _score_metric("review_top1_pct",
                               Get(execution_metrics, "review_top1_pct", Rat(0)))]
    IN  [sub_score |-> MeanOf(<<scores.merge_velocity, scores.responsiveness,
                                scores.review_bottleneck>>),
         scores |-> scores]

calculate_community_score(community_metrics) ==
    LET scores ==
            [contributor_stickiness |->
                 _score_metric("return_rate_pct",
                               Get(community_metrics, "return_rate_pct", Rat(0)))]
    IN  [sub_score |-> MeanOf(<<scores.contributor_stickiness>>), scores |-> scores]

calculate_backlog_score(backlog_metrics) ==
    LET scores ==
            [pr_age |->
                 _score_metric("median_open_pr_age_days",
                               Get(backlog_metrics, "median_open_pr_age_days", Rat(0))),
             issue_age |->
                 _score_metric("median_open_issue_age_days",
                               Get(backlog_metrics, "median_open_issue_age_days", Rat(0)))]
    IN  [sub_score |-> MeanOf(<<scores.pr_age, scores.issue_age>>), scores |-> scores]

\* calculate_overall_score looking its sections up in a previously saved
\* score where the document has one
calculate_overall_score_from_saved(the_metrics) ==
    LET document == Get(the_metrics, "score", the_metrics)
        all_time_metrics == Get(document, "all_time", <<>>)
        exec == calculate_execution_score(Get(all_time_metrics, "execution", <<>>))
        comm == calculate_community_score(Get(all_time_metrics, "community", <<>>))
        latest_backlog_metrics ==
            Get(Get(Get(document, "rolling_windows", <<>>), "last_90_days", <<>>),
                "backlog", <<>>)
        back == calculate_backlog_score(latest_backlog_metrics)
        overall_score ==
            RAdd(RAdd(RMul(exec.sub_score, weights.execution),
                      RMul(comm.sub_score, weights.community)),
                 RMul(back.sub_score, weights.backlog))
    IN  [overall_score |-> Round2(overall_score),
         sub_scores |-> [execution |-> Round2(exec.sub_score),
                         community |-> Round2(comm.sub_score),
                         backlog |-> Round2(back.sub_score)],
         breakdown |-> [execution |-> exec.scores,
                        community |-> comm.scores,
                        backlog |-> back.scores],
         weights |-> weights]

\* calculate_overall_score taking the execution and community metrics of the
\* last_90_days window in place of the all_time ones
calculate_overall_score_of_window(the_metrics) ==
    LET window_metrics ==
            Get(Get(the_metrics, "rolling_windows", <<>>), "last_90_days", <<>>)
        exec == calculate_execution_score(Get(window_metrics, "execution", <<>>))
        comm == calculate_community_score(Get(window_metrics, "community", <<>>))
        back == calculate_backlog_score(Get(window_metrics, "backlog", <<>>))
        overall_score ==
            RAdd(RAdd(RMul(exec.sub_score, weights.execution),
                      RMul(comm.sub_score, weights.community)),
                 RMul(back.sub_score, weights.backlog))
    IN  [overall_score |-> Round2(overall_score),
         sub_scores |-> [execution |-> Round2(exec.sub_score),
                         community |-> Round2(comm.sub_score),
                         backlog |-> Round2(back.sub_score)],
         breakdown |-> [execution |-> exec.scores,
                        community |-> comm.scores,
                        backlog |-> back.scores],
         weights |-> weights]

calculate_overall_score(the_metrics) ==
    LET all_time_metrics == Get(the_metrics, "all_time", <<>>)
        exec == calculate_execution_score(Get(all_time_metrics, "execution", <<>>))
        comm == calculate_community_score(Get(all_time_metrics, "community", <<>>))
        latest_backlog_metrics ==
            Get(Get(Get(the_metrics, "rolling_windows", <<>>), "last_90_days", <<>>),
                "backlog", <<>>)
        back == calculate_backlog_score(latest_backlog_metrics)
        overall_score ==
            RAdd(RAdd(RMul(exec.sub_score, weights.execution),
                      RMul(comm.sub_score, weights.community)),
                 RMul(back.sub_score, weights.backlog))
    IN  [overall_score |-> Round2(overall_score),
         sub_scores |-> [execution |-> Round2(exec.sub_score),
                         community |-> Round2(comm.sub_score),
                         backlog |-> Round2(back.sub_score)],
         breakdown |-> [execution |-> exec.scores,
                        community |-> comm.scores,
                        backlog |-> back.scores],
         weights |-> weights]

\* score_command, --save-to-metrics: the score report and the instant of the
\* scoring written into the loaded document
save_to_metrics(the_metrics, score_report, stamp) ==
    [k \in DOMAIN the_metrics \cup {"score", "score_calculated_at"} |->
        IF k = "score" THEN score_report
        ELSE IF k = "score_calculated_at" THEN stamp
        ELSE the_metrics[k]]

----------------------------------------------------------------------------
(* engine/final_reporter.py: FinalReporter *)

\* _get_open_items
_get_open_items(items) == SelectSeq(items, LAMBDA item : item.state = "OPEN")

\* (clock - datetime.fromisoformat(createdAt)).days: the whole days between
\* an item's creation and a reading of the clock
days_old(clock, item) == (clock - Val(parse_datetime(item.createdAt))) \div HoursPerDay

\* sorted(ages)[len(ages) // 2]
UpperMedian(ages) ==
    LET k == Len(ages) \div 2
    IN  CHOOSE v \in Range(ages) :
            /\ Cardinality({i \in DOMAIN ages : ages[i] < v}) <= k
            /\ k < Cardinality({i \in DOMAIN ages : ages[i] <= v})

\* filter_ids_by_age of _calculate_backlog_snapshot
filter_ids_by_age(items, min_days, clock) ==
    LET old == SelectSeq(items, LAMBDA item : days_old(clock, item) >= min_days)
    IN  [i \in DOMAIN old |-> old[i].number]

\* _calculate_backlog_snapshot, clock being its reading of the clock; an item
\* without createdAt raises AttributeError (None has no replace)
_calculate_backlog_snapshot(open_prs, open_issues, clock) ==
    IF \E item \in Range(open_prs) \cup Range(open_issues) : IsNone(item.createdAt)
    THEN Raise("AttributeError")
    ELSE LET pr_ages == [i \in DOMAIN open_prs |-> days_old(clock, open_prs[i])]
             issue_ages == [i \in DOMAIN open_issues |-> days_old(clock, open_issues[i])]
         IN  Ok([open_prs |-> Len(open_prs),
                 open_issues |-> Len(open_issues),
                 prs_over_365_days |-> Len(filter_ids_by_age(open_prs, 365, clock)),
                 issues_over_365_days |-> Len(filter_ids_by_age(open_issues, 365, clock)),
                 issues_over_730_days |-> Len(filter_ids_by_age(open_issues, 730, clock)),
                 median_pr_age_days_est |->
                     IF pr_ages # <<>> THEN UpperMedian(pr_ages) ELSE 0,
                 median_issue_age_days_est |->
                     IF issue_ages # <<>> THEN UpperMedian(issue_ages) ELSE 0])

\* a risk flag f"{pct}{text}", or the text alone
Flag(pct, text) == [pct |-> pct, text |-> text]

\* int(100 * part / whole)
IntPercent(part, whole) == (100 * part) \div whole

\* the PR-age flag at a ratio of 0.35 and above
PRAgeFlag_from_35(snapshot) ==
    IF /\ snapshot.open_prs > 0
       /\ RLe(Frac(35, 100), Frac(snapshot.prs_over_365_days, snapshot.open_prs))
    THEN <<Flag(Some(IntPercent(snapshot.prs_over_365_days, snapshot.open_prs)),
                "% of open PRs are over 1 year old")>>
    ELSE <<>>

\* _generate_risk_flags, the first if
PRAgeFlag(snapshot) ==
    IF /\ snapshot.open_prs > 0
       /\ RLt(Frac(35, 100), Frac(snapshot.prs_over_365_days, snapshot.open_prs))
    THEN <<Flag(Some(IntPercent(snapshot.prs_over_365_days, snapshot.open_prs)),
                "% of open PRs are over 1 year old")>>
    ELSE <<>>

\* _generate_risk_flags, the second if
IssueAgeFlag(snapshot) ==
    IF /\ snapshot.open_issues > 0
       /\ RLt(Frac(6, 10), Frac(snapshot.issues_over_365_days, snapshot.open_issues))
    THEN <<Flag(Some(IntPercent(snapshot.issues_over_365_days, snapshot.open_issues)),
                "% of open issues are over 1 year old")>>
    ELSE <<>>

\* _generate_risk_flags, the third if (the division raises when there is no
\* open issue)
TwoYearFlag(snapshot) ==
    IF snapshot.issues_over_730_days > 0
    THEN <<Flag(Some(IntPercent(snapshot.issues_over_730_days, snapshot.open_issues)),
                "% of open issues are over 2 years old")>>
    ELSE <<>>

\* the generic warning from 20 open issues on
StaleTrackerFlag_from_20(snapshot) ==
    IF snapshot.open_issues >= 20
    THEN <<Flag(None, "High issue count suggests tracker reflects historical intent rather than active roadmap")>>
    ELSE <<>>

\* _generate_risk_flags, the fourth if
StaleTrackerFlag(snapshot) ==
    IF snapshot.open_issues > 20
    THEN <<Flag(None, "High issue count suggests tracker reflects historical intent rather than active roadmap")>>
    ELSE <<>>

\* _generate_risk_flags
_generate_risk_flags(snapshot) ==
    IF snapshot.issues_over_730_days > 0 /\ snapshot.open_issues = 0
    THEN Raise("ZeroDivisionError")
    ELSE Ok(PRAgeFlag(snapshot) \o IssueAgeFlag(snapshot)
                \o TwoYearFlag(snapshot) \o StaleTrackerFlag(snapshot))

\* the numbers of the items whose age is above low and at most high, item i
\* being aged at the clock reading reads[offset + i]
NumbersAged(items, reads, offset, low, high) ==
    LET keep == {i \in DOMAIN items :
                    /\ low < days_old(reads[offset + i], items[i])
                    /\ days_old(reads[offset + i], items[i]) <= high}
    IN  [j \in 1 .. Cardinality(keep) |->
            items[CHOOSE i \in keep : Cardinality({h \in keep : h <= i}) = j].number]

\* the numbers of the items whose age is above low
NumbersAgedOver(items, reads, offset, low) ==
    LET keep == {i \in DOMAIN items : low < days_old(reads[offset + i], items[i])}
    IN  [j \in 1 .. Cardinality(keep) |->
            items[CHOOSE i \in keep : Cardinality({h \in keep : h <= i}) = j].number]

\* the number of times _generate_stalled_actions reads the clock: once for
\* every item of each of its four lists
NumStalledReads(open_prs, open_issues) == 2 * (Len(open_prs) + Len(open_issues))

\* _generate_stalled_actions, reads being the successive readings of the clock
_generate_stalled_actions(open_prs, open_issues, reads) ==
    IF \E item \in Range(open_prs) \cup Range(open_issues) : IsNone(item.createdAt)
    THEN Raise("AttributeError")
    ELSE LET p == Len(open_prs)
             i == Len(open_issues)
         IN  Ok([archive_prs_over_365_days |->
                     NumbersAgedOver(open_prs, reads, 0, 365),
                 close_issues_over_730_days |->
                     NumbersAgedOver(open_issues, reads, p, 730),
                 decision_required_prs_180_365_days |->
                     NumbersAged(open_prs, reads, p + i, 180, 365),
                 decision_required_issues_180_365_days |->
                     NumbersAged(open_issues, reads, p + i + p, 180, 365)])

\* FinalReporter.generate, reads being the successive readings of the clock:
\* those of analyze_all, the one of _calculate_backlog_snapshot, those of
\* _generate_stalled_actions and the one of report_generated_at
generate(the_prs, the_issues, first_seen_map, reads) ==
    With(analyze_all(the_prs, the_issues, first_seen_map,
                     SubSeq(reads, 1, NumClockReads)), LAMBDA analysis :
    IF analysis.raised # "none" THEN Raise(analysis.raised)
    ELSE
    With(calculate_overall_score(analysis.value), LAMBDA score_report :
    With(_get_open_items(the_prs), LAMBDA open_prs :
    With(_get_open_items(the_issues), LAMBDA open_issues :
    With(_calculate_backlog_snapshot(open_prs, open_issues, reads[NumClockReads + 1]),
         LAMBDA backlog_snapshot :
    IF backlog_snapshot.raised # "none" THEN Raise(backlog_snapshot.raised)
    ELSE
    With(_generate_risk_flags(backlog_snapshot.value), LAMBDA risk_flags :
    IF risk_flags.raised # "none" THEN Raise(risk_flags.raised)
    ELSE
    With(_generate_stalled_actions(open_prs, open_issues,
            [i \in 1 .. NumStalledReads(open_prs, open_issues) |->
                reads[NumClockReads + 1 + i]]), LAMBDA stalled_actions :
    IF stalled_actions.raised # "none" THEN Raise(stalled_actions.raised)
    ELSE
        Ok([report_generated_at |-> reads[Len(reads)],
            metrics |-> [k \in DOMAIN analysis.value \cup {"score"} |->
                            IF k = "score" THEN score_report ELSE analysis.value[k]],
            backlog_snapshot |-> backlog_snapshot.value,
            risk_flags |-> risk_flags.value,
            stalled_actions |-> stalled_actions.value]))))))))

----------------------------------------------------------------------------
(* data/fetcher.py: GitHubDataFetcher *)

\* _execute_query on the response of requests.post: raise_for_status raises
\* HTTPError, a body with 'errors' or without 'data' raises ValueError
_execute_query_data_first(response) ==
    IF response.status >= 400 THEN Raise("HTTPError")
    ELSE IF "data" \in DOMAIN response.json THEN Ok(response.json)
    ELSE Raise("ValueError")

_execute_query(response) ==
    IF response.status >= 400 THEN Raise("HTTPError")
    ELSE IF "errors" \in DOMAIN response.json THEN Raise("ValueError")
    ELSE IF "data" \notin DOMAIN response.json THEN Raise("ValueError")
    ELSE Ok(response.json)

\* _get_author_info: an absent actor becomes ghost, an actor that is no User
\* has no databaseId
_get_author_info(author_obj) ==
    IF IsNone(author_obj) THEN [login |-> <<"g", "h", "o", "s", "t">>, id |-> None]
    ELSE [login |-> Val(author_obj).login, id |-> Val(author_obj).databaseId]

\* the reviews or comments of a node, every one of them kept, an absent
\* author resolved to ghost
NormalizedEvents_keeping_ghosts(connection) ==
    [i \in DOMAIN connection.edges |->
        [connection.edges[i].node EXCEPT
            !.author = Some(_get_author_info(connection.edges[i].node.author))]]

\* the reviews or comments of a node that have an author, flattened and
\* normalized (a review keeps author, submittedAt and state; a comment author
\* and createdAt)
NormalizedEvents(connection) ==
    LET authored == SelectSeq(connection.edges,
                              LAMBDA edge : ~IsNone(edge.node.author))
    IN  [i \in DOMAIN authored |->
            [authored[i].node EXCEPT
                !.author = Some(_get_author_info(authored[i].node.author))]]

\* the names of the labels of a node
LabelNames(connection) ==
    [i \in DOMAIN connection.edges |-> connection.edges[i].node.name]

\* normalized_pr and normalized_issue
normalized_item(kind, raw) ==
    IF kind = "pr"
    THEN [kind |-> "pr", number |-> raw.number, title |-> raw.title,
          state |-> raw.state,
          createdAt |-> raw.createdAt, mergedAt |-> raw.mergedAt,
          author |-> Some(_get_author_info(raw.author)),
          mergedBy |-> Some(_get_author_info(raw.mergedBy)),
          labels |-> LabelNames(raw.labels),
          reviews |-> NormalizedEvents(raw.reviews),
          comments |-> NormalizedEvents(raw.comments)]
    ELSE [kind |-> "issue", number |-> raw.number, title |-> raw.title,
          state |-> raw.state,
          createdAt |-> raw.createdAt, mergedAt |-> None, closedAt |-> raw.closedAt,
          author |-> Some(_get_author_info(raw.author)),
          labels |-> LabelNames(raw.labels),
          reviews |-> <<>>,
          comments |-> NormalizedEvents(raw.comments)]

\* the turn of the loop without the break: the older items are dropped and
\* the loop goes on while the page reports a next page
fetch_page_without_break(kind, normalized, cursor, page, start_date) ==
    LET appended ==
            normalized \o [i \in DOMAIN page.edges |->
                              normalized_item(kind, page.edges[i].node)]
        last_cursor ==
            IF page.edges = <<>> THEN cursor ELSE page.edges[Len(page.edges)].cursor
        created(item) == Val(parse_datetime(item.createdAt))
    IN  IF appended # <<>> /\ created(appended[Len(appended)]) < start_date
        THEN [normalized |->
                  SelectSeq(appended, LAMBDA item : created(item) >= start_date),
              cursor |-> last_cursor, has_more |-> page.pageInfo.hasNextPage]
        ELSE [normalized |-> appended, cursor |-> last_cursor,
              has_more |-> page.pageInfo.hasNextPage]

\* one turn of the while loop of fetch_prs and fetch_issues after its query:
\* the page is normalized and appended; when the last item is older than
\* start_date the older items are dropped and the loop is left
fetch_page(kind, normalized, cursor, page, start_date) ==
    LET appended ==
            normalized \o [i \in DOMAIN page.edges |->
                              normalized_item(kind, page.edges[i].node)]
        last_cursor ==
            IF page.edges = <<>> THEN cursor ELSE page.edges[Len(page.edges)].cursor
        created(item) == Val(parse_datetime(item.createdAt))
    IN  IF appended # <<>> /\ created(appended[Len(appended)]) < start_date
        THEN [normalized |->
                  SelectSeq(appended, LAMBDA item : created(item) >= start_date),
              cursor |-> last_cursor, has_more |-> FALSE]
        ELSE [normalized |-> appended, cursor |-> last_cursor,
              has_more |-> page.pageInfo.hasNextPage]

----------------------------------------------------------------------------
(* The inputs of the model *)

\* the clock reading at the start: 12:00 UTC on 31 December 2024
Now0 == Days(1095) + 12

\* an ISO timestamp with the "Z" suffix
TS(t) == Some([local |-> t, off |-> 0])

\* an ISO timestamp of the same instant written with the offset +02:00
TSPlus2(t) == Some([local |-> t + 2, off |-> 2])

Identity(login, id) == [login |-> login, id |-> id]

alice == Identity(<<"a", "l">>, Some(1))

bob == Identity(<<"b", "o">>, Some(2))

carol == Identity(<<"c", "a">>, Some(3))

\* _get_author_info of an absent author
ghost == Identity(<<"g", "h", "o", "s", "t">>, None)

\* bots: actors that are no User, so without databaseId
botX == Identity(<<"x", "[", "b", "o", "t", "]">>, None)

botY == Identity(<<"y", "[", "b", "o", "t", "]">>, None)

codecov == Identity(CodecovBot, None)

CodecovCaps == Identity(<<"C", "o", "d", "e", "c", "o", "v", "[", "B", "o", "t", "]">>, None)

Review(author, submittedAt) == [author |-> author, submittedAt |-> submittedAt]

Comment(author, createdAt) == [author |-> author, createdAt |-> createdAt]

PR(number, author, createdAt, mergedAt, reviews, comments) ==
    [kind |-> "pr", number |-> number, author |-> author, createdAt |-> createdAt,
     mergedAt |-> mergedAt, state |-> IF IsNone(mergedAt) THEN "OPEN" ELSE "MERGED",
     reviews |-> reviews, comments |-> comments]

Issue(number, author, createdAt, state) ==
    [kind |-> "issue", number |-> number, author |-> author, createdAt |-> createdAt,
     mergedAt |-> None, state |-> state, reviews |-> <<>>, comments |-> <<>>]

\* the instant d days and h hours before Now0
Ago(d, h) == Now0 - Days(d) - h

\* every subsequence of a list (the items of a window or of a test)
RECURSIVE SubSeqs(_)
SubSeqs(items) ==
    IF items = <<>> THEN {<<>>}
    ELSE LET rest == SubSeqs(Tail(items))
         IN  rest \cup {<<items[1]>> \o r : r \in rest}

\* PRs for compute_execution_metrics, created 10 days before Now0
ExecPRs ==
    LET c == Ago(10, 0)
    IN  {PR(1, Some(alice), TS(c), None, <<>>, <<>>),
         PR(2, Some(alice), TS(c), TS(c + 48), <<>>, <<>>),
         PR(3, Some(bob), TSPlus2(c), TS(c + 36), <<>>, <<>>),
         PR(4, Some(alice), None, TS(c + 48), <<Review(Some(bob), TS(c + 24))>>, <<>>),
         PR(5, Some(alice), TS(c), TS(c + 48), <<Review(Some(bob), TS(c + 24))>>, <<>>),
         PR(6, Some(alice), TS(c), None,
            <<Review(Some(bob), TS(c + 24)), Review(Some(bob), TS(c + 30))>>, <<>>),
         PR(7, Some(alice), TS(c), None,
            <<Review(Some(carol), TS(c + 3))>>, <<Comment(Some(bob), TS(c + 5))>>),
         PR(8, Some(alice), TS(c), None,
            <<Review(Some(alice), TS(c + 1))>>, <<Comment(Some(alice), TS(c + 2))>>),
         PR(9, Some(alice), TS(c), None, <<>>, <<Comment(Some(codecov), TS(c + 1))>>),
         PR(10, Some(alice), TS(c), None, <<>>,
            <<Comment(Some(CodecovCaps), TS(c + 1)), Comment(Some(bob), TS(c + 7))>>),
         PR(11, Some(alice), TS(c), None, <<Review(Some(botX), TS(c + 4))>>, <<>>),
         PR(12, Some(alice), TS(c), None, <<Review(Some(botY), TS(c + 6))>>, <<>>),
         PR(13, Some(ghost), TS(c), None, <<>>, <<Comment(Some(botX), TS(c + 2))>>),
         PR(14, Some(botX), TS(c), None, <<Review(Some(botY), TS(c + 3))>>, <<>>),
         PR(15, None, TS(c), None,
            <<Review(Some(bob), TS(c + 8))>>, <<Comment(None, TS(c + 1))>>),
         PR(16, Some(alice), TS(c), None, <<Review(Some(bob), None)>>, <<>>),
         PR(17, Some(alice), TS(c), TS(c + 120),
            <<Review(Some(carol), TS(c + 50))>>, <<Comment(Some(bob), TS(c + 1))>>),
         PR(18, Some(bob), TS(c), None,
            <<Review(Some(alice), TS(c + 9)), Review(Some(carol), TS(c + 11))>>, <<>>)}

\* PRs and issues for the first-seen map and compute_community_metrics
CommunityPRs ==
    {PR(21, Some(alice), TS(Ago(100, 0)), None,
        <<Review(Some(carol), TS(Ago(99, 0)))>>, <<>>),
     PR(22, Some(bob), TS(Ago(50, 0)), None,
        <<>>, <<Comment(Some(alice), TS(Ago(49, 0)))>>),
     PR(23, Some(alice), TS(Ago(200, 0)), TS(Ago(190, 0)), <<>>, <<>>),
     PR(24, Some(botX), TS(Ago(200, 0)), None, <<>>, <<>>)}

CommunityIssues ==
    {Issue(31, Some(carol), TS(Ago(50, 0)), "OPEN"),
     Issue(32, Some(bob), None, "OPEN"),
     Issue(33, None, TS(Ago(200, 0)), "CLOSED")}

CommunityWindowStarts == {Ago(100, 0), Ago(50, 0)}

\* PRs and issues for the whole pipeline
PipelinePRs ==
    {PR(41, Some(alice), TS(Ago(100, 0)), None, <<>>, <<>>),
     PR(42, Some(bob), TS(Ago(10, 0)), TS(Ago(8, 0)),
        <<Review(Some(alice), TS(Ago(9, 0)))>>, <<>>)}

PipelineIssues ==
    {Issue(51, Some(alice), TS(Ago(200, 0)), "OPEN"),
     Issue(52, Some(bob), TS(Ago(5, 0)), "CLOSED")}

\* PRs and issues with missing data: without createdAt, without an author id,
\* without an author
MissingDataPRs ==
    {PR(61, Some(alice), TS(Ago(20, 0)), TS(Ago(19, 0)), <<>>, <<>>),
     PR(62, Some(alice), None, None, <<>>, <<>>),
     PR(63, Some(ghost), TS(Ago(40, 0)), None, <<>>, <<>>)}

MissingDataIssues ==
    {Issue(71, Some(bob), None, "OPEN"),
     Issue(72, None, TS(Ago(20, 0)), "OPEN")}

\* PRs and issues for compute_backlog: a PR closed without merging, and an
\* issue closed (closedAt) after it was open for a while
BacklogPRs ==
    {PR(81, Some(alice), TS(Ago(100, 0)), None, <<>>, <<>>),
     PR(82, Some(bob), TS(Ago(40, 0)), TS(Ago(20, 0)), <<>>, <<>>),
     [PR(83, Some(carol), TS(Ago(40, 0)), None, <<>>, <<>>) EXCEPT !.state = "CLOSED"],
     PR(84, Some(alice), None, None, <<>>, <<>>),
     PR(85, Some(bob), TS(Ago(41, 0)), None, <<>>, <<>>)}

BacklogIssues ==
    {Issue(91, Some(alice), TS(Ago(400, 0)), "OPEN"),
     Issue(92, Some(bob), TS(Ago(40, 0)), "CLOSED") @@ [closedAt |-> TS(Ago(5, 0))],
     Issue(93, Some(carol), None, "OPEN")}

BacklogAsOfs == {Now0, Ago(20, 0), Ago(30, 0), Ago(40, 0), Ago(500, 0)}

\* PRs and issues for the rolling windows: items created exactly 90, 180 and
\* 365 days before Now0, and items inside and outside every window
WindowPRs ==
    {PR(101, Some(alice), TS(Ago(90, 0)), None, <<>>, <<>>),
     PR(102, Some(bob), TS(Ago(200, 0)), TS(Ago(199, 0)), <<>>, <<>>),
     PR(103, Some(alice), TS(Ago(400, 0)), None, <<>>, <<>>)}

WindowIssues ==
    {Issue(111, Some(carol), TS(Ago(90, 0)), "OPEN"),
     Issue(112, Some(bob), TS(Ago(365, 0)), "OPEN")}

\* PRs and issues around the turn of a month: 2024-12-01T00:00Z is
\* Ago(30, 12), and PR 121 is written 2024-12-01T01:00+02:00, an instant of
\* November in UTC; October has an issue and no PR
MonthlyPRs ==
    {PR(121, Some(alice), TSPlus2(Ago(30, 13)), None, <<>>, <<>>),
     PR(122, Some(bob), TS(Ago(30, 12)), None, <<>>, <<>>),
     PR(123, Some(carol), TS(Ago(10, 0)), TS(Ago(9, 0)), <<>>, <<>>)}

MonthlyIssues ==
    {Issue(131, Some(alice), TS(Ago(70, 0)), "OPEN"),
     Issue(132, Some(bob), TS(Ago(30, 13)), "OPEN")}

\* PRs and an issue with ties: PRs 141, 142 and 143 and issue 151 share one
\* createdAt, bob (on 141) and alice (on 143) have one review each, carol two
PermutedPRs ==
    {PR(141, Some(alice), TS(Ago(50, 0)), TS(Ago(48, 0)),
        <<Review(Some(bob), TS(Ago(49, 0)))>>, <<>>),
     PR(142, Some(bob), TS(Ago(50, 0)), TS(Ago(40, 0)),
        <<Review(Some(carol), TS(Ago(49, 12))), Review(Some(carol), TS(Ago(45, 0)))>>,
        <<>>),
     PR(143, Some(carol), TS(Ago(50, 0)), None,
        <<Review(Some(alice), TS(Ago(30, 0)))>>, <<>>)}

PermutedIssues ==
    {Issue(151, Some(alice), TS(Ago(50, 0)), "OPEN")}

\* open items of given ages in days at Now0
OpenPRsAged(ages) ==
    [i \in DOMAIN ages |-> PR(i, Some(alice), TS(Ago(ages[i], 0)), None, <<>>, <<>>)]

OpenIssuesAged(ages) ==
    [i \in DOMAIN ages |-> Issue(i, Some(bob), TS(Ago(ages[i], 0)), "OPEN")]

\* the ages of a backlog with items over two years, over one year and young
AgesOf(two_years, one_year, young) ==
    [i \in 1 .. two_years |-> 800] \o [i \in 1 .. one_year |-> 400]
        \o [i \in 1 .. young |-> 10]

\* backlog snapshots for _generate_risk_flags, taken at Now0: of the open PRs
\* 0 of 0, 2 of 3, 4 of 10 and 7 of 20 are over a year old; of the open issues
\* 0 of 0, 3 of 5, 4 of 5 (one over two years), 13 of 20, 0 of 21 and 21 of 21
\* (7 over two years)
RiskSnapshots ==
    {_calculate_backlog_snapshot(OpenPRsAged(AgesOf(0, p[1], p[2])),
                                 OpenIssuesAged(AgesOf(i[1], i[2], i[3])), Now0).value :
        p \in {<<0, 0>>, <<2, 1>>, <<4, 6>>, <<7, 13>>},
        i \in {<<0, 0, 0>>, <<0, 3, 2>>, <<1, 3, 1>>, <<0, 13, 7>>, <<0, 0, 21>>,
               <<7, 14, 0>>}}

\* PRs and issues for the final report
FinalPRs ==
    {PR(161, Some(alice), TS(Ago(400, 0)), None, <<>>, <<>>),
     PR(162, Some(bob), TS(Ago(10, 0)), TS(Ago(9, 0)), <<>>, <<>>)}

FinalIssues ==
    {Issue(171, Some(alice), TS(Ago(800, 0)), "OPEN"),
     Issue(172, Some(bob), TS(Ago(400, 0)), "OPEN"),
     Issue(173, Some(carol), TS(Ago(800, 0)), "CLOSED")}

\* open PRs and issues aged around the limits of the stalled-action buckets;
\* PR 185 is merged and issue 195 closed
StalledPRs ==
    {PR(181, Some(alice), TS(Ago(180, 0)), None, <<>>, <<>>),
     PR(182, Some(alice), TS(Ago(181, 0)), None, <<>>, <<>>),
     PR(183, Some(bob), TS(Ago(365, 0)), None, <<>>, <<>>),
     PR(184, Some(bob), TS(Ago(366, 0)), None, <<>>, <<>>),
     PR(185, Some(bob), TS(Ago(400, 0)), TS(Ago(399, 0)), <<>>, <<>>)}

StalledIssues ==
    {Issue(191, Some(alice), TS(Ago(180, 0)), "OPEN"),
     Issue(192, Some(alice), TS(Ago(365, 0)), "OPEN"),
     Issue(193, Some(bob), TS(Ago(730, 0)), "OPEN"),
     Issue(194, Some(bob), TS(Ago(731, 0)), "OPEN"),
     Issue(195, Some(bob), TS(Ago(800, 0)), "CLOSED")}

\* open PRs aged exactly 365 days and more, open issues aged exactly 730 days
\* and more
BoundaryPRs ==
    {PR(186, Some(alice), TS(Ago(365, 0)), None, <<>>, <<>>),
     PR(187, Some(bob), TS(Ago(366, 0)), None, <<>>, <<>>)}

BoundaryIssues ==
    {Issue(196, Some(alice), TS(Ago(730, 0)), "OPEN"),
     Issue(197, Some(bob), TS(Ago(731, 0)), "OPEN")}

\* the repository on GitHub: its pull requests and issues, newest first; the
\* review of PR 203 has no author, PR 202 is by an actor that is no User
RawActor(login, databaseId) == Some([login |-> login, databaseId |-> databaseId])

\* a connection of the GraphQL response: its nodes under edges
Edges(nodes) == [edges |-> [i \in DOMAIN nodes |-> [node |-> nodes[i]]]]

RemotePRs ==
    <<[number |-> 203, title |-> "Add export", state |-> "OPEN",
       createdAt |-> TS(Ago(5, 0)), mergedAt |-> None,
       author |-> RawActor(alice.login, alice.id), mergedBy |-> None,
       labels |-> Edges(<<[name |-> "bug"], [name |-> "api"]>>),
       reviews |-> Edges(<<[author |-> None, submittedAt |-> TS(Ago(4, 0)),
                            state |-> "COMMENTED"],
                           [author |-> RawActor(bob.login, bob.id),
                            submittedAt |-> TS(Ago(3, 0)), state |-> "APPROVED"]>>),
       comments |-> Edges(<<[author |-> None, createdAt |-> TS(Ago(4, 12))]>>)],
      [number |-> 202, title |-> "Bump deps", state |-> "MERGED",
       createdAt |-> TS(Ago(50, 0)), mergedAt |-> TS(Ago(49, 0)),
       author |-> RawActor(botX.login, None),
       mergedBy |-> RawActor(bob.login, bob.id),
       labels |-> Edges(<<>>), reviews |-> Edges(<<>>), comments |-> Edges(<<>>)],
      [number |-> 201, title |-> "Old idea", state |-> "CLOSED",
       createdAt |-> TS(Ago(500, 0)), mergedAt |-> None,
       author |-> None, mergedBy |-> None,
       labels |-> Edges(<<>>), reviews |-> Edges(<<>>), comments |-> Edges(<<>>)]>>

RemoteIssues ==
    <<[number |-> 212, title |-> "Crash on start", state |-> "OPEN",
       createdAt |-> TS(Ago(10, 0)), closedAt |-> None,
       author |-> RawActor(carol.login, carol.id),
       labels |-> Edges(<<[name |-> "bug"]>>),
       comments |-> Edges(<<[author |-> RawActor(alice.login, alice.id),
                             createdAt |-> TS(Ago(9, 0))],
                            [author |-> None, createdAt |-> TS(Ago(8, 0))]>>)],
      [number |-> 211, title |-> "Question", state |-> "CLOSED",
       createdAt |-> TS(Ago(300, 0)), closedAt |-> TS(Ago(200, 0)),
       author |-> None, labels |-> Edges(<<>>), comments |-> Edges(<<>>)]>>

\* start_date of the fetcher: before every item, between the items, after all
StartDates == {Ago(1000, 0), Ago(100, 0), Ago(20, 0), Ago(1, 0)}

\* the page GitHub serves after a cursor (the number of items before it)
ServerPage(remote, cursor) ==
    LET n == IF Len(remote) - cursor < PageSize THEN Len(remote) - cursor ELSE PageSize
    IN  [edges |-> [i \in 1 .. n |-> [node |-> remote[cursor + i], cursor |-> cursor + i]],
         pageInfo |-> [hasNextPage |-> cursor + n < Len(remote)]]

\* the responses requests.post may give to a page request: the page, an HTTP
\* error, GraphQL errors without and with data, and a body without data
Responses(connection, page) ==
    LET data == [repository |-> [c \in {connection} |-> page]]
        errors == <<[message |-> "Something went wrong"]>>
    IN  {[status |-> 200, json |-> [data |-> data]],
         [status |-> 502, json |-> <<>>],
         [status |-> 200, json |-> [errors |-> errors]],
         [status |-> 200, json |-> [errors |-> errors, data |-> data]],
         [status |-> 200, json |-> <<>>]}

\* metrics documents for the scorer: the empty document, and documents with
\* and without a backlog section in the last_90_days window
ScorerDocs ==
    LET executions ==
            [median_merge_days : {Frac(3, 2), Rat(45)},
             median_first_response_hours : {Rat(1), Frac(25, 2)},
             review_top1_pct : {Frac(200, 3), Rat(100)}]
        communities == [return_rate_pct : {Frac(100, 3), Rat(0)}]
        windows ==
            {[execution |-> <<>>],
             [backlog |-> [median_open_pr_age_days |-> Rat(100),
                           median_open_issue_age_days |-> Rat(200)]],
             [backlog |-> [median_open_pr_age_days |-> Frac(41, 2),
                           median_open_issue_age_days |-> Rat(20)]]}
    IN  {<<>>} \cup
        {[all_time |-> [execution |-> e, community |-> c],
          rolling_windows |-> [last_90_days |-> w]] :
             e \in executions, c \in communities, w \in windows}

ScorerMetricNames == DOMAIN targets \cup {"author_top1_pct"}

ScorerValues ==
    {Rat(v) : v \in {0, 1, 2, 7, 10, 14, 15, 30, 35, 60, 89, 90, 100, 168, 180, 200}}
    \cup {Frac(29, 2), Frac(100, 3)}

----------------------------------------------------------------------------
(* The state machine *)

\* the state after MetricsCalculator(prs, issues) and RepoHealthScorer(metrics)
InitWith(prPool, issuePool, docs) ==
    /\ prs \in SeqsUpTo(prPool, MaxPRs)
    /\ issues \in SeqsUpTo(issuePool, MaxIssues)
    /\ first_seen_global = _build_first_seen_map(prs \o issues)
    /\ now = Now0
    /\ call = [op |-> "none"]
    /\ ret = <<>>
    /\ raised = "none"
    /\ metrics \in docs
    /\ score = <<>>

\* the system clock advances
Tick ==
    /\ now < Now0 + MaxTicks
    /\ now' = now + 1
    /\ UNCHANGED <<prs, issues, first_seen_global, call, ret, raised, metrics, score>>

\* A method called directly (as the tests call it) is called on the freshly
\* constructed object: no operation has been invoked on it yet.
Fresh == call.op = "none"

ComputeExecutionMetrics(subsets) ==
    /\ Fresh
    /\ \E prs_subset \in subsets :
         \E r \in {compute_execution_metrics(prs_subset)} :
            /\ call' = [op |-> "compute_execution_metrics", prs_subset |-> prs_subset]
            /\ ret' = r.value
            /\ raised' = r.raised
    /\ UNCHANGED <<prs, issues, first_seen_global, now, metrics, score>>

ComputeCommunityMetrics(subsets, windowStarts) ==
    /\ Fresh
    /\ \E items_subset \in subsets, window_start \in windowStarts :
         /\ call' = [op |-> "compute_community_metrics", items_subset |-> items_subset,
                     window_start |-> window_start]
         /\ ret' = compute_community_metrics(items_subset, window_start, first_seen_global)
         /\ raised' = "none"
    /\ UNCHANGED <<prs, issues, first_seen_global, now, metrics, score>>

ComputeBacklog(asOfs) ==
    /\ Fresh
    /\ \E as_of \in asOfs :
         /\ call' = [op |-> "compute_backlog", as_of |-> as_of]
         /\ ret' = compute_backlog(as_of, prs, issues)
         /\ raised' = "none"
    /\ UNCHANGED <<prs, issues, first_seen_global, now, metrics, score>>

\* the successive clock readings analyze_all may get: the clock may advance
\* once between two of them
ClockReadings ==
    {[i \in 1 .. NumClockReads |-> IF i >= tickAt THEN now + 1 ELSE now] :
        tickAt \in IF now < Now0 + MaxTicks THEN 1 .. NumClockReads + 1
                   ELSE {NumClockReads + 1}}

\* ReportGenerator.generate: analyze_all on the calculator it has just built,
\* and the document saved for the scorer
AnalyzeAll ==
    /\ Fresh
    /\ \E reads \in ClockReadings :
         \E r \in {analyze_all(prs, issues, first_seen_global, reads)} :
            /\ call' = [op |-> "analyze_all", reads |-> reads]
            /\ ret' = r.value
            /\ raised' = r.raised
            /\ metrics' = IF r.raised = "none" THEN r.value ELSE metrics
            /\ now' = reads[NumClockReads]
    /\ UNCHANGED <<prs, issues, first_seen_global, score>>

ScoreMetric(names, values) ==
    /\ Fresh
    /\ \E metric_name \in names, value \in values :
         /\ call' = [op |-> "_score_metric", metric_name |-> metric_name, value |-> value]
         /\ ret' = _score_metric(metric_name, value)
         /\ raised' = "none"
    /\ UNCHANGED <<prs, issues, first_seen_global, now, metrics, score>>

\* score_command: the scorer on the metrics document
CalculateOverallScore ==
    /\ \E r \in {calculate_overall_score(metrics)} :
         /\ call' = [op |-> "calculate_overall_score"]
         /\ ret' = r
         /\ score' = r
    /\ raised' = "none"
    /\ UNCHANGED <<prs, issues, first_seen_global, now, metrics>>

\* score_command --save-to-metrics: the scorer on the metrics document, and
\* the document rewritten with the score and the instant of the scoring
ScoreAndSave ==
    /\ \E r \in {calculate_overall_score(metrics)} :
         /\ call' = [op |-> "score_command", save_to_metrics |-> TRUE]
         /\ ret' = r
         /\ score' = r
         /\ metrics' = save_to_metrics(metrics, r, now)
    /\ raised' = "none"
    /\ UNCHANGED <<prs, issues, first_seen_global, now>>

\* n successive readings of the clock, which may advance once between two
ClockReadingsOf(n) ==
    {[i \in 1 .. n |-> IF i >= tickAt THEN now + 1 ELSE now] :
        tickAt \in IF now < Now0 + MaxTicks THEN 1 .. n + 1 ELSE {n + 1}}

\* _generate_risk_flags called on a backlog snapshot
GenerateRiskFlags(snapshots) ==
    /\ Fresh
    /\ \E snapshot \in snapshots :
         \E r \in {_generate_risk_flags(snapshot)} :
            /\ call' = [op |-> "_generate_risk_flags", snapshot |-> snapshot]
            /\ ret' = r.value
            /\ raised' = r.raised
    /\ UNCHANGED <<prs, issues, first_seen_global, now, metrics, score>>

\* _generate_stalled_actions called on the open items
GenerateStalledActions ==
    /\ Fresh
    /\ \E open_prs \in {_get_open_items(prs)} :
       \E open_issues \in {_get_open_items(issues)} :
       \E reads \in ClockReadingsOf(NumStalledReads(open_prs, open_issues)) :
         \E r \in {_generate_stalled_actions(open_prs, open_issues, reads)} :
            /\ call' = [op |-> "_generate_stalled_actions", reads |-> reads]
            /\ ret' = r.value
            /\ raised' = r.raised
            /\ now' = IF reads = <<>> THEN now ELSE reads[Len(reads)]
    /\ UNCHANGED <<prs, issues, first_seen_global, metrics, score>>

\* FinalReporter.generate
Generate ==
    /\ Fresh
    /\ \E reads \in ClockReadingsOf(NumClockReads + 1
            + NumStalledReads(_get_open_items(prs), _get_open_items(issues)) + 1) :
         \E r \in {generate(prs, issues, first_seen_global, reads)} :
            /\ call' = [op |-> "generate", reads |-> reads]
            /\ ret' = r.value
            /\ raised' = r.raised
            /\ now' = reads[Len(reads)]
    /\ UNCHANGED <<prs, issues, first_seen_global, metrics, score>>

\* fetch_all is called: fetch_prs starts with no cursor. In the actions of
\* the fetcher prs and issues are the contents of prs_raw.json and
\* issues_raw.json, the files the calculator's lists are loaded from.
FetchAll(start_dates) ==
    /\ Fresh
    /\ \E start_date \in start_dates :
         call' = [op |-> "fetch_all", stage |-> "fetch_prs", start_date |-> start_date,
                  before |-> [prs |-> prs, issues |-> issues], response |-> <<>>,
                  variables |-> <<>>,
                  normalized_prs |-> <<>>, normalized_issues |-> <<>>, cursor |-> 0]
    /\ UNCHANGED <<prs, issues, first_seen_global, now, ret, raised, metrics, score>>

\* fetch_prs: one turn of its loop, a page request and what follows it
FetchPRsPage ==
    /\ call.op = "fetch_all"
    /\ call.stage = "fetch_prs"
    /\ \E response \in Responses("pullRequests", ServerPage(RemotePRs, call.cursor)) :
         \E r \in {_execute_query(response)} :
            IF r.raised # "none"
            THEN /\ raised' = r.raised
                 /\ call' = [call EXCEPT !.stage = "raised", !.response = response,
                                     !.variables = [cursor |-> call.cursor]]
            ELSE \E turn \in {fetch_page("pr", call.normalized_prs, call.cursor,
                                         r.value.data.repository.pullRequests,
                                         call.start_date)} :
                    /\ raised' = raised
                    /\ call' = [call EXCEPT
                                  !.response = response,
                                  !.variables = [cursor |-> call.cursor],
                                  !.normalized_prs = turn.normalized,
                                  !.cursor = IF turn.has_more THEN turn.cursor ELSE 0,
                                  !.stage = IF turn.has_more THEN "fetch_prs"
                                            ELSE "fetch_issues"]
    /\ UNCHANGED <<prs, issues, first_seen_global, now, ret, metrics, score>>

\* fetch_issues: one turn of its loop; after the last one fetch_all goes on
\* to write the files
FetchIssuesPage ==
    /\ call.op = "fetch_all"
    /\ call.stage = "fetch_issues"
    /\ \E response \in Responses("issues", ServerPage(RemoteIssues, call.cursor)) :
         \E r \in {_execute_query(response)} :
            IF r.raised # "none"
            THEN /\ raised' = r.raised
                 /\ call' = [call EXCEPT !.stage = "raised", !.response = response,
                                     !.variables = [cursor |-> call.cursor]]
            ELSE \E turn \in {fetch_page("issue", call.normalized_issues, call.cursor,
                                         r.value.data.repository.issues,
                                         call.start_date)} :
                    /\ raised' = raised
                    /\ call' = [call EXCEPT
                                  !.response = response,
                                  !.variables = [cursor |-> call.cursor],
                                  !.normalized_issues = turn.normalized,
                                  !.cursor = IF turn.has_more THEN turn.cursor ELSE 0,
                                  !.stage = IF turn.has_more THEN "fetch_issues"
                                            ELSE "write_prs"]
    /\ UNCHANGED <<prs, issues, first_seen_global, now, ret, metrics, score>>

\* fetch_all: json.dump(prs) into prs_raw.json
WritePRsFile ==
    /\ call.op = "fetch_all"
    /\ call.stage = "write_prs"
    /\ prs' = call.normalized_prs
    /\ call' = [call EXCEPT !.stage = "write_issues"]
    /\ UNCHANGED <<issues, first_seen_global, now, ret, raised, metrics, score>>

\* fetch_all: json.dump(issues) into issues_raw.json, and the return
WriteIssuesFile ==
    /\ call.op = "fetch_all"
    /\ call.stage = "write_issues"
    /\ issues' = call.normalized_issues
    /\ call' = [call EXCEPT !.stage = "done"]
    /\ ret' = <<Len(call.normalized_prs), Len(call.normalized_issues)>>
    /\ UNCHANGED <<prs, first_seen_global, now, raised, metrics, score>>

\* the month keys strftime("%Y-%m") can produce in the years of the model
MonthsOfYears ==
    {year * 100 + month : year \in Epoch.year .. Epoch.year + MaxYears - 1,
                          month \in 1 .. 12}

\* the month_end step of the monthly loop of analyze_all, for one month key
ComputeMonthEnd(months) ==
    /\ Fresh
    /\ \E month \in months :
          /\ call' = [op |-> "month_end", month |-> month]
          /\ ret' = MonthEnd(month)
    /\ raised' = "none"
    /\ UNCHANGED <<prs, issues, first_seen_global, now, metrics, score>>

\* the whole pipeline: calculator, report generation and scorer
Init == InitWith(PipelinePRs, PipelineIssues, {<<>>})

Next ==
    \/ Tick
    \/ ComputeExecutionMetrics({prs})
    \/ ComputeCommunityMetrics({prs \o issues}, {now - Days(90)})
    \/ ComputeBacklog({now, Now0 - Days(30)})
    \/ AnalyzeAll
    \/ ScoreMetric({"median_merge_days", "author_top1_pct"}, {Rat(0), Rat(45)})
    \/ CalculateOverallScore

Spec == Init /\ [][Next]_vars

\* compute_execution_metrics over the subsets of ExecPRs
InitExec == InitWith({}, {}, {<<>>})

NextExec == ComputeExecutionMetrics(SeqsUpTo(ExecPRs, MaxSubset))

SpecExec == InitExec /\ [][NextExec]_vars

\* the first-seen map and compute_community_metrics over the windows of a dataset
InitCommunity == InitWith(CommunityPRs, CommunityIssues, {<<>>})

NextCommunity == ComputeCommunityMetrics(SubSeqs(prs \o issues), CommunityWindowStarts)

SpecCommunity == InitCommunity /\ [][NextCommunity]_vars

\* the scorer over metrics documents
InitScorer == InitWith({}, {}, ScorerDocs)

NextScorer ==
    \/ ScoreMetric(ScorerMetricNames, ScorerValues)
    \/ CalculateOverallScore

SpecScorer == InitScorer /\ [][NextScorer]_vars

\* report generation over datasets with missing data
InitMissingData == InitWith(MissingDataPRs, MissingDataIssues, {<<>>})

NextMissingData ==
    \/ Tick
    \/ AnalyzeAll

SpecMissingData == InitMissingData /\ [][NextMissingData]_vars

\* compute_backlog at several instants
InitBacklog == InitWith(BacklogPRs, BacklogIssues, {<<>>})

NextBacklog == ComputeBacklog(BacklogAsOfs)

SpecBacklog == InitBacklog /\ [][NextBacklog]_vars

\* report generation over datasets with items on the window boundaries
InitWindows == InitWith(WindowPRs, WindowIssues, {<<>>})

NextWindows ==
    \/ Tick
    \/ AnalyzeAll

SpecWindows == InitWindows /\ [][NextWindows]_vars

\* report generation over datasets with items around the turn of a month
InitMonthly == InitWith(MonthlyPRs, MonthlyIssues, {<<>>})

NextMonthly ==
    \/ Tick
    \/ AnalyzeAll

SpecMonthly == InitMonthly /\ [][NextMonthly]_vars

\* score_command, with and without --save-to-metrics, over metrics documents
InitScoreCommand == InitWith({}, {}, ScorerDocs)

NextScoreCommand ==
    \/ Tick
    \/ CalculateOverallScore
    \/ ScoreAndSave

SpecScoreCommand == InitScoreCommand /\ [][NextScoreCommand]_vars

\* report generation and scoring over datasets with ties
InitPermuted == InitWith(PermutedPRs, PermutedIssues, {<<>>})

NextPermuted ==
    \/ Tick
    \/ AnalyzeAll
    \/ CalculateOverallScore

SpecPermuted == InitPermuted /\ [][NextPermuted]_vars

\* the final report, and _generate_risk_flags on backlog snapshots
InitFinalReport == InitWith(FinalPRs, FinalIssues, {<<>>})

NextFinalReport ==
    \/ Tick
    \/ GenerateRiskFlags(RiskSnapshots)
    \/ Generate

SpecFinalReport == InitFinalReport /\ [][NextFinalReport]_vars

\* _generate_stalled_actions over open items aged around the bucket limits
InitStalled == InitWith(StalledPRs, StalledIssues, {<<>>})

NextStalled ==
    \/ Tick
    \/ GenerateStalledActions

SpecStalled == InitStalled /\ [][NextStalled]_vars

\* the fetcher over the repository on GitHub, the data files holding what an
\* earlier run left
InitFetch == InitWith(PipelinePRs, PipelineIssues, {<<>>})

NextFetch ==
    \/ FetchAll(StartDates)
    \/ FetchPRsPage
    \/ FetchIssuesPage
    \/ WritePRsFile
    \/ WriteIssuesFile

SpecFetch == InitFetch /\ [][NextFetch]_vars

\* the as-of instant of the monthly backlog, for every month key
InitMonthEnd == InitWith({}, {}, {<<>>})

NextMonthEnd == ComputeMonthEnd(MonthsOfYears)

SpecMonthEnd == InitMonthEnd /\ [][NextMonthEnd]_vars

\* the final report over open items aged exactly one and two years
InitBoundary == InitWith(BoundaryPRs, BoundaryIssues, {<<>>})

NextBoundary ==
    \/ Tick
    \/ Generate

SpecBoundary == InitBoundary /\ [][NextBoundary]_vars

----------------------------------------------------------------------------
(* Properties *)

InPercentRange(x) == RLe(Rat(0), x) /\ RLe(x, Rat(100))

\* r is x rounded to 2 decimals: a multiple of 1/100 at most 1/200 away from x
RoundedTo2(r, x) ==
    /\ 100 % r.d = 0
    /\ RLe(RSub(r, x), Frac(1, 200))
    /\ RLe(RSub(x, r), Frac(1, 200))

\* the score of value v against the band (good, bad), as the scoring rule
\* states it
BandScore(good, bad, v) ==
    IF good < bad
    THEN IF RLe(v, Rat(good)) THEN Rat(100)
         ELSE IF RLe(Rat(bad), v) THEN Rat(0)
         ELSE Norm(100 * (bad * v.d - v.n), (bad - good) * v.d)
    ELSE IF RLe(Rat(good), v) THEN Rat(100)
         ELSE IF RLe(v, Rat(bad)) THEN Rat(0)
         ELSE Norm(100 * (v.n - bad * v.d), (good - bad) * v.d)

\* the value of a metric in a section of a metrics document, 0 when absent
MetricIn(section, name) == Get(section, name, Rat(0))

AllTime(doc, part) == Get(Get(doc, "all_time", <<>>), part, <<>>)

Last90Backlog(doc) ==
    Get(Get(Get(doc, "rolling_windows", <<>>), "last_90_days", <<>>), "backlog", <<>>)

\* C1: the score document of calculate_overall_score has
\* overall_score = round(0.4 * execution + 0.4 * community + 0.2 * backlog, 2),
\* the execution sub-score being the mean of the merge-velocity, responsiveness
\* and review-bottleneck scores, the community sub-score the return-rate score
\* and the backlog sub-score the mean of the open-PR-age and open-issue-age
\* scores; the weights sum to 1 and every sub-score and the overall score lie
\* in [0, 100].
OverallScoreIsWeightedSum ==
    call.op = "calculate_overall_score" =>
        LET execution == AllTime(metrics, "execution")
            community == AllTime(metrics, "community")
            backlog == Last90Backlog(metrics)
            merge_velocity == BandScore(1, 30, MetricIn(execution, "median_merge_days"))
            responsiveness ==
                BandScore(2, 168, MetricIn(execution, "median_first_response_hours"))
            review_bottleneck == BandScore(30, 90, MetricIn(execution, "review_top1_pct"))
            stickiness == BandScore(60, 10, MetricIn(community, "return_rate_pct"))
            pr_age == BandScore(7, 90, MetricIn(backlog, "median_open_pr_age_days"))
            issue_age == BandScore(14, 180, MetricIn(backlog, "median_open_issue_age_days"))
            exec_score ==
                RDiv(RAdd(RAdd(merge_velocity, responsiveness), review_bottleneck), Rat(3))
            comm_score == stickiness
            back_score == RDiv(RAdd(pr_age, issue_age), Rat(2))
            weighted ==
                RAdd(RAdd(RMul(Frac(4, 10), exec_score), RMul(Frac(4, 10), comm_score)),
                     RMul(Frac(2, 10), back_score))
        IN  /\ score.breakdown.execution =
                   [merge_velocity |-> merge_velocity, responsiveness |-> responsiveness,
                    review_bottleneck |-> review_bottleneck]
            /\ score.breakdown.community = [contributor_stickiness |-> stickiness]
            /\ score.breakdown.backlog = [pr_age |-> pr_age, issue_age |-> issue_age]
            /\ RoundedTo2(score.sub_scores.execution, exec_score)
            /\ RoundedTo2(score.sub_scores.community, comm_score)
            /\ RoundedTo2(score.sub_scores.backlog, back_score)
            /\ RoundedTo2(score.overall_score, weighted)
            /\ RAdd(RAdd(score.weights.execution, score.weights.community),
                    score.weights.backlog) = Rat(1)
            /\ InPercentRange(exec_score) /\ InPercentRange(comm_score)
            /\ InPercentRange(back_score) /\ InPercentRange(score.overall_score)
            /\ InPercentRange(score.sub_scores.execution)
            /\ InPercentRange(score.sub_scores.community)
            /\ InPercentRange(score.sub_scores.backlog)

\* a document scored whose three sub-scores all lie strictly inside (0, 100)
\* and differ from one another
ScoredInsideTheBands ==
    /\ call.op = "calculate_overall_score"
    /\ \A k \in {"execution", "community", "backlog"} :
          RLt(Rat(0), score.sub_scores[k]) /\ RLt(score.sub_scores[k], Rat(100))
    /\ score.sub_scores.execution # score.sub_scores.community
    /\ score.sub_scores.community # score.sub_scores.backlog
    /\ score.sub_scores.execution # score.sub_scores.backlog

\* C2: _score_metric returns, for a metric with the configured target
\* (good, bad): when good < bad, 100 if v <= good, 0 if v >= bad, else
\* 100 * (bad - v) / (bad - good); when good > bad, 100 if v >= good, 0 if
\* v <= bad, else 100 * (v - bad) / (good - bad); the result is in [0, 100];
\* a metric without a configured target scores 0 and nothing is raised.
ScoreMetricIsPiecewiseLinear ==
    call.op = "_score_metric" =>
        LET v == call.value
            name == call.metric_name
        IN  /\ raised = "none"
            /\ InPercentRange(ret)
            /\ name \notin DOMAIN targets => ret = Rat(0)
            /\ name \in DOMAIN targets =>
                  LET good == targets[name].good
                      bad == targets[name].bad
                  IN  /\ good < bad /\ RLe(v, Rat(good)) => ret = Rat(100)
                      /\ good < bad /\ RLe(Rat(bad), v) => ret = Rat(0)
                      /\ good < bad /\ RLt(Rat(good), v) /\ RLt(v, Rat(bad)) =>
                            ret = Norm(100 * (bad * v.d - v.n), (bad - good) * v.d)
                      /\ good > bad /\ RLe(Rat(good), v) => ret = Rat(100)
                      /\ good > bad /\ RLe(v, Rat(bad)) => ret = Rat(0)
                      /\ good > bad /\ RLt(Rat(bad), v) /\ RLt(v, Rat(good)) =>
                            ret = Norm(100 * (v.n - bad * v.d), (good - bad) * v.d)

\* a value scored strictly inside the band of a higher-is-better metric
ScoredInsideHigherIsBetterBand ==
    /\ call.op = "_score_metric"
    /\ call.metric_name = "return_rate_pct"
    /\ RLt(Rat(0), ret) /\ RLt(ret, Rat(100))

\* C3: scoring the document analyze_all produced, the backlog sub-score is
\* the mean of the open-PR-age and open-issue-age scores of the median open
\* ages of the dataset at the time of the analysis; it is 0 when the median
\* open PR age is at least 90 days and the median open issue age at least 180.
BacklogScoreFollowsOpenAges ==
    (call.op = "calculate_overall_score" /\ metrics # <<>>) =>
        LET snapshot == compute_backlog(now, prs, issues)
            pr_age == BandScore(7, 90, snapshot.median_open_pr_age_days)
            issue_age == BandScore(14, 180, snapshot.median_open_issue_age_days)
        IN  /\ RoundedTo2(score.sub_scores.backlog, RDiv(RAdd(pr_age, issue_age), Rat(2)))
            /\ (/\ RLe(Rat(90), snapshot.median_open_pr_age_days)
                /\ RLe(Rat(180), snapshot.median_open_issue_age_days))
               => score.sub_scores.backlog = Rat(0)

\* the UTC instant a timestamp denotes
InstantOfTS(ts) == Val(ts).local - Val(ts).off

HasTS(ts) == ts # <<>>

\* the median of a non-empty sample, by order statistics: the r-th smallest
\* value is the one with fewer than r values below it and at least r values
\* not above it
OrderStatistic(sample, r) ==
    CHOOSE v \in Range(sample) :
        /\ Cardinality({i \in DOMAIN sample : RLt(sample[i], v)}) < r
        /\ Cardinality({i \in DOMAIN sample : RLe(sample[i], v)}) >= r

MedianOf(sample) ==
    LET n == Len(sample)
    IN  IF n % 2 = 1 THEN OrderStatistic(sample, (n + 1) \div 2)
        ELSE RDiv(RAdd(OrderStatistic(sample, n \div 2),
                       OrderStatistic(sample, n \div 2 + 1)), Rat(2))

\* C4: median_merge_days is the median of (mergedAt - createdAt), in days, over
\* exactly the PRs of the subset that have both timestamps; a PR never merged
\* adds no value to the sample and is still counted in total_prs.
MedianMergeDaysOverMergedPRs ==
    (call.op = "compute_execution_metrics" /\ raised = "none") =>
        LET subset == call.prs_subset
            both == SelectSeq(subset,
                        LAMBDA pr : HasTS(pr.createdAt) /\ HasTS(pr.mergedAt))
            sample == [i \in DOMAIN both |->
                          Frac(InstantOfTS(both[i].mergedAt) - InstantOfTS(both[i].createdAt),
                               24)]
        IN  /\ ret.total_prs = Len(subset)
            /\ sample # <<>> => ret.median_merge_days = MedianOf(sample)

\* a subset of two PRs, one merged and one never merged, measured
MedianSkipsUnmergedPR ==
    /\ call.op = "compute_execution_metrics"
    /\ raised = "none"
    /\ Len(call.prs_subset) = 2
    /\ \E i, j \in DOMAIN call.prs_subset :
          /\ HasTS(call.prs_subset[i].createdAt) /\ ~HasTS(call.prs_subset[i].mergedAt)
          /\ HasTS(call.prs_subset[j].createdAt) /\ HasTS(call.prs_subset[j].mergedAt)
    /\ ret.median_merge_days = Rat(2)
    /\ ret.total_prs = 2

\* two identities are the same contributor iff their ids are present and equal
SameContributor(a, b) == ~IsNone(a.id) /\ ~IsNone(b.id) /\ a.id = b.id

\* an identity other than the author of the PR
OtherThanAuthor(pr, identity) ==
    IsNone(pr.author) \/ ~SameContributor(identity, Val(pr.author))

\* the instants of the events that respond to a PR
RespondingInstants(pr) ==
    {InstantOfTS(pr.comments[i].createdAt) :
        i \in {j \in DOMAIN pr.comments :
                 /\ ~IsNone(pr.comments[j].author)
                 /\ OtherThanAuthor(pr, Val(pr.comments[j].author))
                 /\ lower(Val(pr.comments[j].author).login) # CodecovBot
                 /\ HasTS(pr.comments[j].createdAt)}}
    \cup
    {InstantOfTS(pr.reviews[i].submittedAt) :
        i \in {j \in DOMAIN pr.reviews :
                 /\ ~IsNone(pr.reviews[j].author)
                 /\ OtherThanAuthor(pr, Val(pr.reviews[j].author))
                 /\ HasTS(pr.reviews[j].submittedAt)}}

\* C5: the first-response time of a PR is the hours from createdAt to the
\* earliest comment by an identity other than the PR author and not
\* codecov[bot] (whatever the case of the login), or review by an identity
\* other than the PR author; a PR without such an event adds no value, and
\* median_first_response_hours is the median of the sample.
MedianFirstResponseOverRespondedPRs ==
    (call.op = "compute_execution_metrics" /\ raised = "none") =>
        LET responded == SelectSeq(call.prs_subset,
                             LAMBDA pr : HasTS(pr.createdAt) /\ RespondingInstants(pr) # {})
            sample == [i \in DOMAIN responded |->
                          Rat(MinOf(RespondingInstants(responded[i]))
                              - InstantOfTS(responded[i].createdAt))]
        IN  sample # <<>> => ret.median_first_response_hours = MedianOf(sample)

\* the reviewer of a review: the id when there is one, else the identity
ReviewerOf(identity) ==
    IF IsNone(identity.id) THEN identity ELSE [login |-> <<>>, id |-> identity.id]

\* the number of reviews of a PR subset by reviewers other than the PR's
\* author, for each such reviewer
ReviewsBy(subset, reviewer) ==
    SumSeq([p \in DOMAIN subset |->
               Cardinality({i \in DOMAIN subset[p].reviews :
                               /\ ~IsNone(subset[p].reviews[i].author)
                               /\ OtherThanAuthor(subset[p], Val(subset[p].reviews[i].author))
                               /\ ReviewerOf(Val(subset[p].reviews[i].author)) = reviewer})])

Reviewers(subset) ==
    UNION {{ReviewerOf(Val(subset[p].reviews[i].author)) :
               i \in {j \in DOMAIN subset[p].reviews :
                        /\ ~IsNone(subset[p].reviews[j].author)
                        /\ OtherThanAuthor(subset[p], Val(subset[p].reviews[j].author))}} :
           p \in DOMAIN subset}

MaxOf(S) == CHOOSE x \in S : \A y \in S : x >= y

\* C6: review_top1_pct is the share of the top reviewer and review_top2_pct
\* the combined share of the two top reviewers among all reviews by
\* non-author reviewers, times 100; 0 <= top1 <= top2 <= 100; both are 0 when
\* there is no qualifying review.
ReviewSharesOfTopReviewers ==
    (call.op = "compute_execution_metrics" /\ raised = "none") =>
        LET subset == call.prs_subset
            reviewers == Reviewers(subset)
            total == SumSeq([p \in DOMAIN subset |->
                        Cardinality({i \in DOMAIN subset[p].reviews :
                            /\ ~IsNone(subset[p].reviews[i].author)
                            /\ OtherThanAuthor(subset[p], Val(subset[p].reviews[i].author))})])
            top1 == MaxOf({ReviewsBy(subset, r) : r \in reviewers})
            top2 == IF Cardinality(reviewers) = 1 THEN top1
                    ELSE MaxOf({ReviewsBy(subset, pair[1]) + ReviewsBy(subset, pair[2]) :
                                   pair \in {p \in reviewers \X reviewers : p[1] # p[2]}})
        IN  /\ RLe(Rat(0), ret.review_top1_pct)
            /\ RLe(ret.review_top1_pct, ret.review_top2_pct)
            /\ RLe(ret.review_top2_pct, Rat(100))
            /\ reviewers = {} =>
                  ret.review_top1_pct = Rat(0) /\ ret.review_top2_pct = Rat(0)
            /\ reviewers # {} =>
                  /\ ret.review_top1_pct = Frac(100 * top1, total)
                  /\ ret.review_top2_pct = Frac(100 * top2, total)

\* the ids of the authors compute_community_metrics counts in a subset:
\* those of the items with an author id and a createdAt
CountedAuthors(items) ==
    {Val(Val(items[i].author).id) :
        i \in {j \in DOMAIN items :
                 /\ ~IsNone(items[j].author)
                 /\ ~IsNone(Val(items[j].author).id)
                 /\ HasTS(items[j].createdAt)}}

\* C7: author_top2_pct >= author_top1_pct for every item subset; with exactly
\* one distinct author author_top2_pct equals author_top1_pct; both are 0
\* when there is no author.
AuthorTop2AtLeastTop1 ==
    call.op = "compute_community_metrics" =>
        LET authors == CountedAuthors(call.items_subset)
        IN  /\ RLe(ret.author_top1_pct, ret.author_top2_pct)
            /\ Cardinality(authors) = 1 => ret.author_top2_pct = ret.author_top1_pct
            /\ authors = {} =>
                  ret.author_top1_pct = Rat(0) /\ ret.author_top2_pct = Rat(0)

\* C8: every contributor counted in the subset is new or returning and not
\* both (new + returning = unique), new meaning a global first-seen instant
\* >= window_start; return_rate_pct is returning / unique * 100, lies in
\* [0, 100] and is 0 when every contributor is new.
ContributorsSplitIntoNewAndReturning ==
    call.op = "compute_community_metrics" =>
        LET counted == CountedAuthors(call.items_subset)
            new == {id \in counted :
                       /\ id \in DOMAIN first_seen_global
                       /\ first_seen_global[id] >= call.window_start}
        IN  /\ ret.unique_contributors = Cardinality(counted)
            /\ ret.new_contributors = Cardinality(new)
            /\ ret.returning_contributors = Cardinality(counted \ new)
            /\ ret.new_contributors + ret.returning_contributors = ret.unique_contributors
            /\ InPercentRange(ret.return_rate_pct)
            /\ counted # {} =>
                  ret.return_rate_pct = Frac(100 * Cardinality(counted \ new),
                                             Cardinality(counted))
            /\ new = counted => ret.return_rate_pct = Rat(0)

\* a window with a returning contributor and a contributor first seen at the
\* very instant the window starts
ContributorFirstSeenAtWindowStart ==
    /\ call.op = "compute_community_metrics"
    /\ \E id \in CountedAuthors(call.items_subset) :
          first_seen_global[id] = call.window_start
    /\ ret.new_contributors >= 1
    /\ ret.returning_contributors >= 1

ZeroExecution(m) ==
    /\ m.median_merge_days = Rat(0)
    /\ m.median_first_response_hours = Rat(0)
    /\ m.review_top1_pct = Rat(0)
    /\ m.review_top2_pct = Rat(0)

ZeroCommunity(m) ==
    /\ m.return_rate_pct = Rat(0)
    /\ m.author_top1_pct = Rat(0)
    /\ m.author_top2_pct = Rat(0)

ZeroBacklog(m) ==
    /\ m.median_open_pr_age_days = Rat(0)
    /\ m.median_open_issue_age_days = Rat(0)

\* C10: on an empty input (an empty PR subset, an empty item subset, a
\* calculator without PRs and issues for compute_backlog and analyze_all)
\* every median and every percentage of the result is 0 and nothing is raised.
EmptyInputsGiveZeros ==
    /\ (call.op = "compute_execution_metrics" /\ call.prs_subset = <<>>) =>
          raised = "none" /\ ZeroExecution(ret)
    /\ (call.op = "compute_community_metrics" /\ call.items_subset = <<>>) =>
          raised = "none" /\ ZeroCommunity(ret)
    /\ (call.op = "compute_backlog" /\ prs = <<>> /\ issues = <<>>) =>
          raised = "none" /\ ZeroBacklog(ret)
    /\ (call.op = "analyze_all" /\ prs = <<>> /\ issues = <<>>) =>
          /\ raised = "none"
          /\ ZeroExecution(ret.all_time.execution)
          /\ ZeroCommunity(ret.all_time.community)
          /\ DOMAIN ret.rolling_windows = {"last_365_days", "last_180_days", "last_90_days"}
          /\ \A k \in DOMAIN ret.rolling_windows :
                /\ ZeroExecution(ret.rolling_windows[k].execution)
                /\ ZeroCommunity(ret.rolling_windows[k].community)
          /\ DOMAIN ret.monthly = {}

\* analyze_all has run on a calculator without PRs and issues
AnalyzedEmptyDataset ==
    /\ call.op = "analyze_all"
    /\ prs = <<>>
    /\ issues = <<>>
    /\ raised = "none"

\* C11: on a dataset in which some PR or issue lacks createdAt or an author
\* id, analyze_all completes without raising; such a record is left out only
\* of the samples that need the missing field: every PR still counts in the
\* all-time total_prs, every item with an author id and a createdAt in the
\* all-time contributors, every item with a createdAt in its month.
AnalyzeAllToleratesMissingData ==
    call.op = "analyze_all" =>
        LET all_items == prs \o issues
            dated == {i \in DOMAIN all_items : HasTS(all_items[i].createdAt)}
        IN  /\ raised = "none"
            /\ ret.all_time.execution.total_prs = Len(prs)
            /\ ret.all_time.community.unique_contributors
                  = Cardinality(CountedAuthors(all_items))
            /\ DOMAIN ret.monthly
                  = {strftime_Ym(InstantOfTS(all_items[i].createdAt)) : i \in dated}

\* the age in whole days at as_of of an item created at or before as_of
WholeDaysOld(item, as_of) ==
    CHOOSE d \in 0 .. as_of :
        /\ d * 24 <= as_of - InstantOfTS(item.createdAt)
        /\ as_of - InstantOfTS(item.createdAt) < (d + 1) * 24

\* C12: compute_backlog(as_of) counts as open exactly the PRs with
\* createdAt <= as_of and mergedAt absent or > as_of (a PR closed without
\* merging stays in the backlog), and the issues with createdAt <= as_of whose
\* fetch-time state is not CLOSED, whatever their closedAt; the medians are
\* those of the ages of these items.
BacklogCountsOpenItems ==
    call.op = "compute_backlog" =>
        LET as_of == call.as_of
            open_prs == SelectSeq(prs, LAMBDA pr :
                            /\ HasTS(pr.createdAt)
                            /\ InstantOfTS(pr.createdAt) <= as_of
                            /\ (HasTS(pr.mergedAt) => InstantOfTS(pr.mergedAt) > as_of))
            open_issues == SelectSeq(issues, LAMBDA issue :
                               /\ HasTS(issue.createdAt)
                               /\ InstantOfTS(issue.createdAt) <= as_of
                               /\ issue.state # "CLOSED")
            pr_ages == [i \in DOMAIN open_prs |-> Rat(WholeDaysOld(open_prs[i], as_of))]
            issue_ages ==
                [i \in DOMAIN open_issues |-> Rat(WholeDaysOld(open_issues[i], as_of))]
        IN  /\ ret.open_pr_count = Len(open_prs)
            /\ ret.open_issue_count = Len(open_issues)
            /\ ret.median_open_pr_age_days
                  = IF pr_ages = <<>> THEN Rat(0) ELSE MedianOf(pr_ages)
            /\ ret.median_open_issue_age_days
                  = IF issue_ages = <<>> THEN Rat(0) ELSE MedianOf(issue_ages)

\* a backlog taken with a PR closed without merging in it, a PR merged only
\* later, and an issue that was closed only later left out
BacklogWithClosedUnmergedPR ==
    /\ call.op = "compute_backlog"
    /\ \E i \in DOMAIN prs :
          /\ prs[i].state = "CLOSED"
          /\ ~HasTS(prs[i].mergedAt)
    /\ \E i \in DOMAIN prs :
          /\ HasTS(prs[i].mergedAt)
          /\ InstantOfTS(prs[i].createdAt) <= call.as_of
          /\ InstantOfTS(prs[i].mergedAt) > call.as_of
    /\ ret.open_pr_count = 2
    /\ \E i \in DOMAIN issues :
          /\ issues[i].state = "CLOSED"
          /\ InstantOfTS(issues[i].createdAt) <= call.as_of
          /\ InstantOfTS(issues[i].closedAt) > call.as_of
    /\ ret.open_issue_count = 0

\* the items of a list created within the trailing days of an instant
CreatedWithin(items, days, instant) ==
    SelectSeq(items, LAMBDA item :
        HasTS(item.createdAt) /\ InstantOfTS(item.createdAt) >= instant - days * 24)

\* the rolling windows of a report are those of the instant current
RollingWindowsAsOf(report, current) ==
    \A w \in DOMAIN WindowDays :
        LET days == WindowDays[w]
            window == report.rolling_windows[WindowKey(days)]
            window_prs == CreatedWithin(prs, days, current)
            window_issues == CreatedWithin(issues, days, current)
        IN  /\ window.execution = compute_execution_metrics(window_prs).value
            /\ window.community
                  = compute_community_metrics(window_prs \o window_issues,
                                              current - days * 24, first_seen_global)

\* C13: for each N in {365, 180, 90}, analyze_all computes last_N_days over
\* exactly the PRs and issues created within the trailing N days of now, with
\* window_start = now - N days, now being one instant of the run; the windows
\* are nested: total_prs of last_90_days <= last_180_days <= last_365_days
\* <= all_time.
RollingWindowsOverTrailingDays ==
    (call.op = "analyze_all" /\ raised = "none") =>
        /\ \E current \in Range(call.reads) : RollingWindowsAsOf(ret, current)
        /\ ret.rolling_windows["last_90_days"].execution.total_prs
              <= ret.rolling_windows["last_180_days"].execution.total_prs
        /\ ret.rolling_windows["last_180_days"].execution.total_prs
              <= ret.rolling_windows["last_365_days"].execution.total_prs
        /\ ret.rolling_windows["last_365_days"].execution.total_prs
              <= ret.all_time.execution.total_prs

\* the calendar months of the years from the epoch to the year after Now0,
\* as keys
MonthKeys ==
    {y * 100 + m : y \in Epoch.year .. Epoch.year + 3, m \in 1 .. 12}

\* the first instant after the month of a key
EndOfMonth(key) ==
    IF key % 100 = 12
    THEN InstantOf([year |-> key \div 100 + 1, month |-> 1])
    ELSE InstantOf([year |-> key \div 100, month |-> (key % 100) + 1])

\* the calendar month (UTC) an item was created in
CreatedIn(item, key) ==
    /\ HasTS(item.createdAt)
    /\ InstantOf(strptime_Ym01(key)) <= InstantOfTS(item.createdAt)
    /\ InstantOfTS(item.createdAt) < EndOfMonth(key)

\* C14: the monthly section has a key YYYY-MM for exactly the calendar months
\* (UTC) in which at least one PR or issue was created; every PR with a
\* createdAt is counted in exactly the execution metrics of its month, so
\* the monthly total_prs sum to the all_time total_prs when every PR has a
\* createdAt.
MonthlyKeysAndTotals ==
    (call.op = "analyze_all" /\ raised = "none") =>
        LET all_items == prs \o issues
            months == SortedKeys(DOMAIN ret.monthly)
        IN  /\ DOMAIN ret.monthly
                  = {key \in MonthKeys :
                        \E i \in DOMAIN all_items : CreatedIn(all_items[i], key)}
            /\ \A key \in DOMAIN ret.monthly :
                  ret.monthly[key].execution.total_prs
                      = Cardinality({i \in DOMAIN prs : CreatedIn(prs[i], key)})
            /\ (\A i \in DOMAIN prs : HasTS(prs[i].createdAt)) =>
                  SumSeq([j \in DOMAIN months |->
                            ret.monthly[months[j]].execution.total_prs])
                      = ret.all_time.execution.total_prs

\* a report over a PR written in another month than its UTC month, and a month
\* with an issue and no PR
MonthlyAcrossTurnOfMonth ==
    /\ call.op = "analyze_all"
    /\ raised = "none"
    /\ \E i \in DOMAIN prs :
          /\ Val(prs[i].createdAt).off # 0
          /\ strftime_Ym(Val(prs[i].createdAt).local)
                # strftime_Ym(InstantOfTS(prs[i].createdAt))
    /\ \E key \in DOMAIN ret.monthly : ret.monthly[key].execution.total_prs = 0
    /\ Cardinality(DOMAIN ret.monthly) >= 2

\* the operations that score the metrics document
ScoringOps == {"calculate_overall_score", "score_command"}

\* a metrics document without the keys score_command saves into it
Unscored(document) ==
    [k \in DOMAIN document \ {"score", "score_calculated_at"} |-> document[k]]

\* C15: scoring is a pure function of the metrics document:
\* calculate_overall_score leaves the document unchanged, two invocations on
\* the same document return equal score documents, and scoring a document
\* into which a previous score was saved (keys score and score_calculated_at)
\* returns the same score document as scoring the original.
ScoringIsPure ==
    [][call'.op \in ScoringOps =>
          /\ call'.op = "calculate_overall_score" => metrics' = metrics
          /\ DOMAIN Unscored(metrics') = DOMAIN Unscored(metrics)
          /\ \A k \in DOMAIN Unscored(metrics) : metrics'[k] = metrics[k]
          /\ call.op \in ScoringOps => ret' = ret
          /\ ret' = calculate_overall_score(Unscored(metrics))]_vars

\* a document with a saved score has been scored again, to the saved score
RescoredSavedDocument ==
    /\ call.op = "calculate_overall_score"
    /\ "score" \in DOMAIN metrics
    /\ "all_time" \in DOMAIN metrics
    /\ ret = metrics["score"]
    /\ RLt(Rat(0), ret.overall_score)
    /\ RLt(ret.overall_score, Rat(100))

\* the permutations of a list
PermutationsOf(items) ==
    {[i \in DOMAIN items |-> items[p[i]]] : p \in Permutations(DOMAIN items)}

\* the overall score and the sub-scores of a metrics document
ScoresOf(document) ==
    LET report == calculate_overall_score(document)
    IN  [overall_score |-> report.overall_score, sub_scores |-> report.sub_scores]

\* C16: for any PR list and issue list and any permutation of each,
\* analyze_all followed by calculate_overall_score yields the same
\* overall_score and sub_scores, ties in createdAt and in review counts
\* included.
ScoreInvariantUnderPermutation ==
    /\ (call.op = "analyze_all" /\ raised = "none") =>
          \A permuted_prs \in PermutationsOf(prs) :
              \A permuted_issues \in PermutationsOf(issues) :
                  LET first_seen_map ==
                          _build_first_seen_map(permuted_prs \o permuted_issues)
                      permuted == analyze_all(permuted_prs, permuted_issues,
                                              first_seen_map, call.reads)
                  IN  /\ permuted.raised = "none"
                      /\ ScoresOf(permuted.value) = ScoresOf(ret)
    /\ (call.op = "calculate_overall_score" /\ metrics # <<>>) =>
          /\ score = calculate_overall_score(metrics)
          /\ ScoresOf(metrics)
                = [overall_score |-> score.overall_score,
                   sub_scores |-> score.sub_scores]

\* a report over two PRs created at the same instant by two contributors,
\* reviewed by reviewers with unequal review counts, has been scored
ScoredDatasetWithTies ==
    /\ call.op = "calculate_overall_score"
    /\ metrics # <<>>
    /\ Len(prs) = 2
    /\ prs[1].createdAt = prs[2].createdAt
    /\ prs[1].author # prs[2].author
    /\ Len(prs[1].reviews) < Len(prs[2].reviews)
    /\ RLt(Rat(0), score.sub_scores.execution)

\* the backlog snapshot the risk flags of the current state were made from
FlaggedSnapshot ==
    IF call.op = "generate" THEN ret.backlog_snapshot ELSE call.snapshot

\* the risk flags of the current state
RiskFlags == IF call.op = "generate" THEN ret.risk_flags ELSE ret

FlagsWithText(text) == {i \in DOMAIN RiskFlags : RiskFlags[i].text = text}

RiskFlagsMade == call.op \in {"generate", "_generate_risk_flags"} /\ raised = "none"

\* C17: _generate_risk_flags emits the PR-age flag iff open_prs > 0 and
\* prs_over_365_days / open_prs is strictly greater than 0.35 (exactly 35%
\* does not flag), and the flag's message reports
\* floor(100 * prs_over_365_days / open_prs) percent.
PRAgeFlagAbove35Percent ==
    RiskFlagsMade =>
        LET snapshot == FlaggedSnapshot
            flags == FlagsWithText("% of open PRs are over 1 year old")
        IN  /\ flags # {} <=>
                  /\ snapshot.open_prs > 0
                  /\ 100 * snapshot.prs_over_365_days > 35 * snapshot.open_prs
            /\ Cardinality(flags) <= 1
            /\ \A i \in flags :
                  \E pct \in 0 .. 100 :
                      /\ RiskFlags[i].pct = <<pct>>
                      /\ pct * snapshot.open_prs <= 100 * snapshot.prs_over_365_days
                      /\ 100 * snapshot.prs_over_365_days < (pct + 1) * snapshot.open_prs

\* 4 of 10 open PRs are over a year old: '40% of open PRs are over 1 year old'
FlaggedFourOfTenPRs ==
    /\ call.op = "_generate_risk_flags"
    /\ call.snapshot.open_prs = 10
    /\ call.snapshot.prs_over_365_days = 4
    /\ ret[1] = [pct |-> <<40>>, text |-> "% of open PRs are over 1 year old"]

\* the texts of the four risk flags, in the order of their emission
RiskFlagTexts ==
    <<"% of open PRs are over 1 year old",
      "% of open issues are over 1 year old",
      "% of open issues are over 2 years old",
      "High issue count suggests tracker reflects historical intent rather than active roadmap">>

\* the flag at position i reports floor(100 * part / whole) percent
ReportsFloorPercent(i, part, whole) ==
    \E pct \in 0 .. 100 :
        /\ RiskFlags[i].pct = <<pct>>
        /\ pct * whole <= 100 * part
        /\ 100 * part < (pct + 1) * whole

\* C18: _generate_risk_flags emits the issue-age flag iff more than 60% of
\* open issues are older than 365 days, the two-year flag iff at least one
\* open issue is older than 730 days (its message reporting that count as a
\* percentage of all open issues), and the stale-tracker warning iff the
\* open-issue count exceeds 20; no other flag is emitted, the flags appear in
\* the order PR-age, issue-age, two-year, stale-tracker, and no snapshot
\* produced by _calculate_backlog_snapshot causes a division by zero.
IssueFlagsAndTheirOrder ==
    /\ call.op \in {"generate", "_generate_risk_flags"} => raised # "ZeroDivisionError"
    /\ RiskFlagsMade =>
        LET snapshot == FlaggedSnapshot
            issue_age == FlagsWithText(RiskFlagTexts[2])
            two_year == FlagsWithText(RiskFlagTexts[3])
            stale_tracker == FlagsWithText(RiskFlagTexts[4])
        IN  /\ issue_age # {} <=>
                  /\ snapshot.open_issues > 0
                  /\ 100 * snapshot.issues_over_365_days > 60 * snapshot.open_issues
            /\ \A i \in issue_age :
                  ReportsFloorPercent(i, snapshot.issues_over_365_days,
                                      snapshot.open_issues)
            /\ two_year # {} <=> snapshot.issues_over_730_days >= 1
            /\ \A i \in two_year :
                  ReportsFloorPercent(i, snapshot.issues_over_730_days,
                                      snapshot.open_issues)
            /\ stale_tracker # {} <=> snapshot.open_issues > 20
            /\ \A i \in stale_tracker : RiskFlags[i].pct = <<>>
            /\ \A i \in DOMAIN RiskFlags :
                  \E k \in DOMAIN RiskFlagTexts : RiskFlags[i].text = RiskFlagTexts[k]
            /\ \A i, j \in DOMAIN RiskFlags :
                  i < j =>
                      \E k, l \in DOMAIN RiskFlagTexts :
                          /\ k < l
                          /\ RiskFlags[i].text = RiskFlagTexts[k]
                          /\ RiskFlags[j].text = RiskFlagTexts[l]

\* the four flags emitted at once: the PR-age flag, and all of 21 open issues
\* over a year old, 7 of them over two years
AllFourFlagsEmitted ==
    /\ call.op = "_generate_risk_flags"
    /\ call.snapshot.open_issues = 21
    /\ call.snapshot.issues_over_730_days = 7
    /\ Len(ret) = 4
    /\ ret[2] = [pct |-> <<100>>, text |-> "% of open issues are over 1 year old"]
    /\ ret[3] = [pct |-> <<33>>, text |-> "% of open issues are over 2 years old"]
    /\ ret[4].pct = <<>>

\* C19: _generate_stalled_actions lists an open PR's number under
\* archive_prs_over_365_days iff its age in whole days is > 365, an open
\* issue's number under close_issues_over_730_days iff its age is > 730, and
\* an open PR or issue under the decision_required buckets iff its age d
\* satisfies 180 <= d < 365 (180 inclusive, 365 exclusive); an item's age is
\* taken at the clock reading made for it.
StalledActionBuckets ==
    (call.op = "_generate_stalled_actions" /\ raised = "none") =>
        LET open_prs == _get_open_items(prs)
            open_issues == _get_open_items(issues)
            p == Len(open_prs)
            i == Len(open_issues)
            age(item, read) == (read - InstantOfTS(item.createdAt)) \div 24
            Listed(items, offset, Bucket(_)) ==
                LET keep == SelectSeq([j \in DOMAIN items |-> j],
                                LAMBDA j : Bucket(age(items[j], call.reads[offset + j])))
                IN  [j \in DOMAIN keep |-> items[keep[j]].number]
        IN  /\ ret.archive_prs_over_365_days
                  = Listed(open_prs, 0, LAMBDA d : d > 365)
            /\ ret.close_issues_over_730_days
                  = Listed(open_issues, p, LAMBDA d : d > 730)
            /\ ret.decision_required_prs_180_365_days
                  = Listed(open_prs, p + i, LAMBDA d : 180 <= d /\ d < 365)
            /\ ret.decision_required_issues_180_365_days
                  = Listed(open_issues, p + i + p, LAMBDA d : 180 <= d /\ d < 365)

\* a response that _execute_query must not accept
FailedResponse(response) ==
    \/ response.status >= 400
    \/ "errors" \in DOMAIN response.json
    \/ "data" \notin DOMAIN response.json

\* what a fetch that completes returns: the items of the repository created
\* on or after start_date, normalized, newest first
CompleteFetch(kind, remote, start_date) ==
    SelectSeq([i \in DOMAIN remote |-> normalized_item(kind, remote[i])],
              LAMBDA item : InstantOfTS(item.createdAt) >= start_date)

\* C20: if any page request of the fetcher fails (HTTP error, a GraphQL
\* response carrying 'errors', or a response without 'data'), fetch_prs and
\* fetch_issues raise instead of returning the pages fetched so far, and
\* fetch_all writes neither prs_raw.json nor issues_raw.json: both files are
\* written only after both fetches have completed successfully.
FetchFailureWritesNothing ==
    /\ [](call.op = "fetch_all" =>
            /\ (call.response # <<>> /\ FailedResponse(call.response)) =>
                  /\ raised \in {"HTTPError", "ValueError"}
                  /\ call.stage = "raised"
                  /\ ret = <<>>
            /\ raised # "none" =>
                  /\ prs = call.before.prs
                  /\ issues = call.before.issues
            /\ call.stage \in {"write_prs", "write_issues", "done"} =>
                  /\ raised = "none"
                  /\ call.normalized_prs
                        = CompleteFetch("pr", RemotePRs, call.start_date)
                  /\ call.normalized_issues
                        = CompleteFetch("issue", RemoteIssues, call.start_date))
    /\ [][(prs' # prs \/ issues' # issues) =>
            /\ call.op = "fetch_all"
            /\ call.stage \in {"write_prs", "write_issues"}
            /\ raised' = "none"]_vars

\* a page request failed with GraphQL errors beside its data, after a page of
\* pull requests had been fetched; the files are as they were
FetchRaisedAfterFirstPage ==
    /\ call.op = "fetch_all"
    /\ call.stage = "raised"
    /\ raised = "ValueError"
    /\ call.normalized_prs # <<>>
    /\ DOMAIN call.response.json = {"errors", "data"}
    /\ prs = call.before.prs
    /\ issues = call.before.issues

\* the author of a record: login and id = databaseId of the actor, login
\* ghost and no id for an absent actor
ResolvedAuthor(record, actor) ==
    /\ record.login = IF actor = <<>> THEN ghost.login ELSE actor[1].login
    /\ record.id = IF actor = <<>> THEN <<>> ELSE actor[1].databaseId

\* the positions of the edges of a connection whose node has an author
Authored(connection) ==
    SelectSeq([i \in DOMAIN connection.edges |-> i],
              LAMBDA i : connection.edges[i].node.author # <<>>)

\* a flattened list of reviews or comments holds the authored nodes of the
\* connection, in order, each with its author resolved
FlattenedFrom(events, connection) ==
    /\ Len(events) = Len(Authored(connection))
    /\ \A j \in DOMAIN events :
          LET node == connection.edges[Authored(connection)[j]].node
          IN  /\ ResolvedAuthor(events[j].author[1], node.author)
              /\ \A field \in DOMAIN node \ {"author"} : events[j][field] = node[field]

\* a record is the normalized form of a node
NormalizedFrom(record, node) ==
    /\ record.number = node.number
    /\ record.state = node.state
    /\ record.createdAt = node.createdAt
    /\ ResolvedAuthor(record.author[1], node.author)
    /\ record.labels = [i \in DOMAIN node.labels.edges |-> node.labels.edges[i].node.name]
    /\ FlattenedFrom(record.comments, node.comments)
    /\ "reviews" \in DOMAIN node => FlattenedFrom(record.reviews, node.reviews)

\* the records of a fetch are those of the nodes created on or after
\* start_date, one each, in API order
FetchedFrom(records, remote, start_date) ==
    LET kept == SelectSeq([i \in DOMAIN remote |-> i],
                    LAMBDA i : InstantOfTS(remote[i].createdAt) >= start_date)
    IN  /\ Len(records) = Len(kept)
        /\ \A j \in DOMAIN records : NormalizedFrom(records[j], remote[kept[j]])
        /\ \A j \in DOMAIN records : InstantOfTS(records[j].createdAt) >= start_date

\* C21: given pages delivered in descending createdAt order, fetch_prs (and
\* likewise fetch_issues) returns, in API order, exactly one normalized record
\* per fetched node whose createdAt >= start_date and never a record created
\* before start_date; each record has its author resolved to {login, id =
\* databaseId} (an absent author becomes ghost with no id), its labels
\* flattened to a list of names, and its reviews and comments flattened to
\* lists from which the entries with an absent author are dropped.
FetchReturnsNormalizedRecords ==
    call.op = "fetch_all" =>
        /\ call.stage \in {"fetch_issues", "write_prs", "write_issues", "done"} =>
              FetchedFrom(call.normalized_prs, RemotePRs, call.start_date)
        /\ call.stage \in {"write_prs", "write_issues", "done"} =>
              FetchedFrom(call.normalized_issues, RemoteIssues, call.start_date)

\* both fetches have returned, PR 203 with its labels and the one review that
\* has an author, PR 201 by ghost, and the older issue cut by start_date
FetchedAndNormalized ==
    /\ call.op = "fetch_all"
    /\ call.stage = "write_prs"
    /\ Len(call.normalized_prs) = 3
    /\ call.normalized_prs[1].labels = <<"bug", "api">>
    /\ Len(call.normalized_prs[1].reviews) = 1
    /\ call.normalized_prs[1].comments = <<>>
    /\ call.normalized_prs[3].author = Some(ghost)
    /\ Len(call.normalized_issues) = 2
    /\ Len(call.normalized_issues[1].comments) = 1

\* an identity without an id
Unidentified(identity) == IsNone(identity.id)

\* C22: in compute_execution_metrics two identities are the same contributor
\* only when both ids are present and equal: reviews by distinct reviewers
\* whose id is absent are not pooled under one reviewer in reviewer_counts,
\* and a commenter or reviewer with an absent id is not treated as the PR's
\* author (and so still counts as a response) when the PR's author also has
\* an absent id.
AbsentIdsAreNeverMerged ==
    (call.op = "compute_execution_metrics" /\ raised = "none") =>
        LET subset == call.prs_subset
        IN  /\ \A i \in DOMAIN ret.top_reviewers_by_id :
                  \E reviewer \in Reviewers(subset) :
                      ret.top_reviewers_by_id[i].count = ReviewsBy(subset, reviewer)
            /\ \A p \in DOMAIN subset :
                  (/\ Len(subset) = 1
                   /\ HasTS(subset[p].createdAt)
                   /\ ~IsNone(subset[p].author)
                   /\ Unidentified(Val(subset[p].author))
                   /\ RespondingInstants(subset[p]) # {}) =>
                      ret.median_first_response_hours
                          = Rat(MinOf(RespondingInstants(subset[p]))
                                - InstantOfTS(subset[p].createdAt))

\* the items created before the end of the month of a key that satisfy unsettled
NeverSettledBy(items, key, unsettled(_)) ==
    {i \in DOMAIN items :
        /\ HasTS(items[i].createdAt)
        /\ InstantOfTS(items[i].createdAt) < EndOfMonth(key)
        /\ unsettled(items[i])}

\* C23: for every month key M of the monthly section the backlog snapshot
\* covers the whole of month M: every PR created during M (UTC) without a
\* mergedAt and every issue created during M whose state is not CLOSED is
\* counted in M's open_pr_count / open_issue_count, the items created at any
\* time on the last calendar day of M included.
MonthlyBacklogCoversWholeMonth ==
    (call.op = "analyze_all" /\ raised = "none") =>
        \A key \in DOMAIN ret.monthly :
            /\ ret.monthly[key].backlog.open_pr_count
                  >= Cardinality(NeverSettledBy(prs, key,
                                     LAMBDA pr : IsNone(pr.mergedAt)))
            /\ ret.monthly[key].backlog.open_issue_count
                  >= Cardinality(NeverSettledBy(issues, key,
                                     LAMBDA issue : issue.state # "CLOSED"))

\* C24: for every month key YYYY-MM the as-of instant of that month's
\* backlog falls on the last calendar day of the same month; for December of
\* year Y the following month is January of year Y+1, so the as-of day is
\* 31 December of year Y, and for the months 1..11 the year is unchanged.
MonthEndOnLastDayOfSameMonth ==
    call.op = "month_end" =>
        LET year == call.month \div 100
            month == call.month % 100
            day == ret \div HoursPerDay
        IN  /\ ret >= 0
            /\ MonthOfDay(day) = [year |-> year, month |-> month]
            /\ MonthOfDay(day + 1) # MonthOfDay(day)
            /\ MonthOfDay(day + 1).year = (IF month = 12 THEN year + 1 ELSE year)
            /\ month = 12 => day = DaysBeforeYear(year + 1) - 1

\* the month-end step has been taken for a December
MonthEndOfDecember ==
    /\ call.op = "month_end"
    /\ call.month % 100 = 12
    /\ MonthOfDay(ret \div HoursPerDay).month = 12

\* a non-negative whole number
IsWholeNumber(x) == x.d = 1 /\ x.n >= 0

\* C25: for every as_of the median_open_pr_age_days and the
\* median_open_issue_age_days returned by compute_backlog are non-negative
\* integers (whole days of as_of - createdAt), for open sets of odd and of
\* even size.
BacklogMediansAreWholeDays ==
    call.op = "compute_backlog" =>
        /\ IsWholeNumber(ret.median_open_pr_age_days)
        /\ IsWholeNumber(ret.median_open_issue_age_days)

\* at most one item of a pool, as a list
AtMostOneOf(pool) == {<<>>} \cup {<<item>> : item \in pool}

\* the first-seen map of the dataset with more PRs and more issues
FirstSeenWith(more_prs, more_issues) ==
    _build_first_seen_map((prs \o more_prs) \o (issues \o more_issues))

\* C26: the first-seen map is monotonic in the dataset: for a dataset D and
\* additional PRs or issues X, every contributor id in the map of D is in the
\* map of D plus X with a first-seen instant less than or equal to its
\* instant in D; adding items neither increases nor removes an entry.
FirstSeenMonotonicInDataset ==
    \A more_prs \in AtMostOneOf(CommunityPRs) :
        \A more_issues \in AtMostOneOf(CommunityIssues) :
            LET larger == FirstSeenWith(more_prs, more_issues)
            IN  \A id \in DOMAIN first_seen_global :
                    /\ id \in DOMAIN larger
                    /\ larger[id] <= first_seen_global[id]

\* a dataset whose map gets an earlier instant for one contributor from an
\* additional PR and a new contributor from an additional issue
FirstSeenLoweredAndExtended ==
    /\ first_seen_global # <<>>
    /\ \E more_prs \in AtMostOneOf(CommunityPRs) :
          \E id \in DOMAIN first_seen_global :
              FirstSeenWith(more_prs, <<>>)[id] < first_seen_global[id]
    /\ \E more_issues \in AtMostOneOf(CommunityIssues) :
          DOMAIN FirstSeenWith(<<>>, more_issues) # DOMAIN first_seen_global

\* C27: the open PRs counted in the backlog snapshot's prs_over_365_days are
\* exactly the PRs listed in archive_prs_over_365_days, and the open issues
\* counted in issues_over_730_days exactly those listed in
\* close_issues_over_730_days: each count equals the length of its list for
\* every set of open items, items aged exactly 365 or 730 days included.
SnapshotCountsMatchStalledLists ==
    (call.op = "generate" /\ raised = "none") =>
        /\ ret.backlog_snapshot.prs_over_365_days
              = Len(ret.stalled_actions.archive_prs_over_365_days)
        /\ ret.backlog_snapshot.issues_over_730_days
              = Len(ret.stalled_actions.close_issues_over_730_days)

\* C28: in the document of analyze_all the all_time community metrics have
\* returning_contributors = 0, new_contributors = unique_contributors and
\* return_rate_pct = 0 for every dataset, so the community sub-score the
\* scorer derives from the document is 0 for every dataset.
AllTimeCommunityHasNoReturning ==
    /\ (call.op = "analyze_all" /\ raised = "none") =>
          /\ ret.all_time.community.returning_contributors = 0
          /\ ret.all_time.community.new_contributors
                = ret.all_time.community.unique_contributors
          /\ ret.all_time.community.return_rate_pct = Rat(0)
          /\ calculate_overall_score(ret).sub_scores.community = Rat(0)
    /\ (call.op = "calculate_overall_score" /\ metrics # <<>>) =>
          /\ score.sub_scores.community = Rat(0)
          /\ score.breakdown.community.contributor_stickiness = Rat(0)

\* a scored document of a dataset with two contributors, one of them
\* returning in a rolling window
ScoredWithReturningInWindow ==
    /\ call.op = "calculate_overall_score"
    /\ metrics # <<>>
    /\ metrics.all_time.community.unique_contributors >= 2
    /\ \E key \in DOMAIN metrics.rolling_windows :
          metrics.rolling_windows[key].community.returning_contributors > 0
    /\ score.sub_scores.community = Rat(0)

\* other values of 'now': 20 days before and 60 days after Now0
OtherClocks == {Now0 - Days(20), Now0 + Days(60)}

\* the document of analyze_all for the dataset of the state, every reading of
\* the clock being the given one
AnalysisAt(clock) ==
    analyze_all(prs, issues, first_seen_global, [i \in 1 .. NumClockReads |-> clock])

\* C29: the score document does not depend on the current time: for the same
\* PR and issue lists analyze_all followed by calculate_overall_score yields
\* equal overall_score, sub_scores and breakdown at two values of 'now'; only
\* the rolling_windows section of the metrics document varies with 'now'.
ScoreIndependentOfNow ==
    /\ (call.op = "analyze_all" /\ raised = "none") =>
          \A clock \in OtherClocks :
              LET other == AnalysisAt(clock)
              IN  /\ other.raised = "none"
                  /\ other.value.all_time = ret.all_time
                  /\ other.value.monthly = ret.monthly
                  /\ calculate_overall_score(other.value) = calculate_overall_score(ret)
    /\ (call.op = "calculate_overall_score" /\ metrics # <<>>) =>
          \A clock \in OtherClocks :
              LET rescored == calculate_overall_score(AnalysisAt(clock).value)
              IN  /\ rescored.overall_score = score.overall_score
                  /\ rescored.sub_scores = score.sub_scores
                  /\ rescored.breakdown = score.breakdown

\* a scored document whose rolling windows are other ones 60 days later
ScoredWhileWindowsMove ==
    /\ call.op = "calculate_overall_score"
    /\ metrics # <<>>
    /\ RLt(Rat(0), score.overall_score)
    /\ AnalysisAt(Now0 + Days(60)).value.rolling_windows # metrics.rolling_windows

\* the stages of fetch_all in which pages are requested
PagingStages == {"fetch_prs", "fetch_issues"}

\* the connection a stage of fetch_all pages through
ConnectionOf(stage) == IF stage = "fetch_prs" THEN "pullRequests" ELSE "issues"

\* what a stage of fetch_all has accumulated
AccumulatedIn(c, stage) ==
    IF stage = "fetch_prs" THEN c.normalized_prs ELSE c.normalized_issues

\* the last response holds a page of the connection
ReceivedPageOf(c, connection) ==
    /\ c.response # <<>>
    /\ "data" \in DOMAIN c.response.json
    /\ connection \in DOMAIN c.response.json.data.repository

PageOf(c, connection) == c.response.json.data.repository[connection]

\* a page request of the loop of fetch_prs or fetch_issues and what the loop
\* does with the page
PaginationStep ==
    LET connection == ConnectionOf(call.stage)
        accumulated == AccumulatedIn(call, call.stage)
        first == ~ReceivedPageOf(call, connection)
        previous == PageOf(call, connection)
        page == PageOf(call', connection)
        older ==
            /\ page.edges # <<>>
            /\ InstantOfTS(page.edges[Len(page.edges)].node.createdAt) < call.start_date
    IN  /\ call'.variables.cursor
              = (IF first THEN 0 ELSE previous.edges[Len(previous.edges)].cursor)
        /\ ~first =>
              /\ previous.pageInfo.hasNextPage
              /\ accumulated # <<>> =>
                    InstantOfTS(accumulated[Len(accumulated)].createdAt)
                        >= call.start_date
        /\ call'.stage # "raised" =>
              (call'.stage = call.stage <=> (page.pageInfo.hasNextPage /\ ~older))

\* C30: the pagination loop of fetch_prs / fetch_issues requests a further
\* page only while the previous page reported hasNextPage = true and the last
\* accumulated item is not older than start_date, each request using the
\* cursor of the last edge received; it ends as soon as a page reports
\* hasNextPage = false or its last item is older than start_date, and issues
\* no request after that.
PaginationEndsWithLastPage ==
    [][/\ (call.op = "fetch_all" /\ call.stage \in PagingStages) => PaginationStep
       /\ (call.op = "fetch_all" /\ call.stage \notin PagingStages) =>
             /\ call'.stage \notin PagingStages
             /\ call'.variables = call.variables
       /\ (call.op = "fetch_all" /\ call.stage = "fetch_issues") =>
             call'.stage # "fetch_prs"]_vars

\* fetch_prs asked for a second page with the cursor of the first one and
\* stopped there, the page's last item being older than start_date while the
\* page reported a next page
PagingStoppedAtStartDate ==
    /\ call.op = "fetch_all"
    /\ call.stage = "fetch_issues"
    /\ ReceivedPageOf(call, "pullRequests")
    /\ call.variables.cursor = 1
    /\ PageOf(call, "pullRequests").pageInfo.hasNextPage
    /\ Len(call.normalized_prs) = 1

============================================================================
